---- MODULE Spec2Model ----
(***************************************************************************)
(* Model of ActionBase (lib/ansible/plugins/action/__init__.py): the       *)
(* remote staging and invocation protocol shared by all action plugins.    *)
(*                                                                         *)
(* Text.  A Python string is a sequence of tokens; the string is the       *)
(* concatenation of its tokens, and every token is written as the literal  *)
(* text it stands for ("\n" is a line feed, "BECOME-SUCCESS" those 14      *)
(* characters); only the members of a JSON object are abbreviated, see     *)
(* member_dict.  The alphabets are chosen so that no literal the code      *)
(* searches for can straddle two tokens.  None is the value None below; a  *)
(* Python mapping is [t |-> "dict", d |-> function from its keys], a       *)
(* Python list is [t |-> "list", l |-> sequence].                          *)
(*                                                                         *)
(* The transport (connection.exec_command / put_file), the shell command   *)
(* builders, the templar and the module assembler are collaborators        *)
(* outside this file: a command is a record naming the builder and its     *)
(* arguments, and what the remote side answers is an input of the action.  *)
(***************************************************************************)
EXTENDS Integers, Sequences, FiniteSets, TLC

VARIABLES play_context, connection, C, self, task, op, args, calls, ret

vars == <<play_context, connection, C, self, task, op, args, calls, ret>>

(* Bounds of the model *)
MaxOut == 5
MaxJson == 4
MaxEnv == 3
MaxMk == 4

None == <<"<None>">>

Strs(A, n) == UNION {[1..k -> A] : k \in 0..n}

Last(s) == s[Len(s)]

(***************************************************************************)
(* Python string primitives on token sequences                             *)
(***************************************************************************)
IsSpace(c) == c \in {" ", "\n", "\r"}

RECURSIVE lstrip(_)
lstrip(s) == IF s # <<>> /\ IsSpace(Head(s)) THEN lstrip(Tail(s)) ELSE s

RECURSIVE rstrip(_)
rstrip(s) == IF s # <<>> /\ IsSpace(Last(s)) THEN rstrip(SubSeq(s, 1, Len(s) - 1)) ELSE s

strip(s) == rstrip(lstrip(s))

startswith(s, p) == Len(s) >= Len(p) /\ SubSeq(s, 1, Len(p)) = p

endswith(s, p) == Len(s) >= Len(p) /\ SubSeq(s, Len(s) - Len(p) + 1, Len(s)) = p

(* str.splitlines: position i begins a line iff it is the first position   *)
(* or follows a line boundary ("\n", "\r\n" or a lone "\r").               *)
LineStart(s, i) ==
    \/ i = 1
    \/ /\ i > 1
       /\ \/ s[i-1] = "\n"
          \/ s[i-1] = "\r" /\ s[i] # "\n"

(* str.splitlines() *)
RECURSIVE splitlines(_)
splitlines(s) ==
    LET breaks == {i \in 1..Len(s) : s[i] \in {"\n", "\r"}}
    IN IF s = <<>> THEN <<>>
       ELSE IF breaks = {} THEN <<s>>
       ELSE LET i == CHOOSE b \in breaks : \A c \in breaks : b <= c
                j == IF s[i] = "\r" /\ i < Len(s) /\ s[i+1] = "\n" THEN i + 1 ELSE i
            IN <<SubSeq(s, 1, i - 1)>> \o splitlines(SubSeq(s, j + 1, Len(s)))

(***************************************************************************)
(* _strip_success_message                                                  *)
(***************************************************************************)
(* re.sub(r'^((\r)?\n)?BECOME-SUCCESS.*(\r)?\n', '', data): without        *)
(* re.MULTILINE '^' matches at offset 0 only, '.' matches anything but     *)
(* "\n", so the one possible match runs from offset 0 through the first    *)
(* "\n" that follows the literal.                                          *)
re_sub_become_success(data) ==
    LET pl == IF startswith(data, <<"\r", "\n", "BECOME-SUCCESS">>) THEN 2
              ELSE IF startswith(data, <<"\n", "BECOME-SUCCESS">>) THEN 1
              ELSE IF startswith(data, <<"BECOME-SUCCESS">>) THEN 0
              ELSE -1
        ends == IF pl < 0 THEN {} ELSE {k \in (pl + 2)..Len(data) : data[k] = "\n"}
    IN IF ends = {} THEN data
       ELSE LET k == CHOOSE e \in ends : \A f \in ends : e <= f
            IN SubSeq(data, k + 1, Len(data))

strip_success_message(data) ==
    IF startswith(strip(data), <<"BECOME-SUCCESS", "-">>)
      THEN re_sub_become_success(data)
      ELSE data

(***************************************************************************)
(* _filter_leading_non_json_lines                                          *)
(***************************************************************************)
filter_leading_non_json_lines_first_char_only(data) ==
    LET hits == {i \in 1..Len(data) : data[i] \in {"{", "["}}
    IN IF hits = {} THEN <<>>
       ELSE SubSeq(data, CHOOSE i \in hits : \A j \in hits : i <= j, Len(data))

filter_leading_non_json_lines(data) ==
    LET hits == {i \in 1..Len(data) : LineStart(data, i) /\ data[i] \in {"{", "["}}
    IN IF hits = {} THEN <<>>
       ELSE SubSeq(data, CHOOSE i \in hits : \A j \in hits : i <= j, Len(data))

(***************************************************************************)
(* Python mappings are functions from keys to values                       *)
(***************************************************************************)
EmptyDict == [k \in {} |-> ""]

dict_set(d, k, v) == [x \in DOMAIN d \cup {k} |-> IF x = k THEN v ELSE d[x]]

dict_update(d, e) == [x \in DOMAIN d \cup DOMAIN e |-> IF x \in DOMAIN e THEN e[x] ELSE d[x]]

PyDict(d) == [t |-> "dict", d |-> d]

PyList(l) == [t |-> "list", l |-> l]

(***************************************************************************)
(* json.loads on the documents                                             *)
(*   value ::= {} | {members} | [] | [value]       (white space anywhere)  *)
(* where members is one token that abbreviates the text of the members of  *)
(* an object; member_dict is the mapping that text decodes to:             *)
(*   m         "k":1                                                       *)
(*   r         "rc":1                                                      *)
(*   o         "stdout":"x\nx"                                             *)
(*   absent    "stat":{"exists":false}                                     *)
(*   dir       "stat":{"exists":true,"isdir":true}                         *)
(*   file      "stat":{"exists":true,"isdir":false,"checksum":"da39a3ee"}  *)
(*   link      "stat":{"exists":true,"isdir":false}                        *)
(*   denied    "failed":true,"msg":"Permission denied"                     *)
(*   broken    "failed":true,"msg":"x"                                     *)
(*   pfail     "failed":true,"rc":1                                        *)
(*   pabsent   "state":"absent"                                            *)
(*   pbin      "state":"file","appears_binary":true                        *)
(*   pbig      "state":"file","appears_binary":false,"size":2              *)
(*   ptext     "state":"file","appears_binary":false,"size":1              *)
(*   slurp     "content":"aGk=","encoding":"base64"                        *)
(*   slurphex  "content":"6869","encoding":"hex"                           *)
(***************************************************************************)
Members == {"m", "r", "o", "absent", "dir", "file", "link", "denied", "broken",
            "pfail", "pabsent", "pbin", "pbig", "ptext", "slurp", "slurphex"}

member_dict(b) ==
    CASE b = "m" -> "k" :> 1
      [] b = "r" -> "rc" :> 1
      [] b = "o" -> "stdout" :> <<"x", "\n", "x">>
      [] b = "absent" -> "stat" :> ("exists" :> FALSE)
      [] b = "dir" -> "stat" :> ("exists" :> TRUE @@ "isdir" :> TRUE)
      [] b = "file" -> "stat" :> ("exists" :> TRUE @@ "isdir" :> FALSE
                                  @@ "checksum" :> <<"da39a3ee">>)
      [] b = "link" -> "stat" :> ("exists" :> TRUE @@ "isdir" :> FALSE)
      [] b = "denied" -> "failed" :> TRUE @@ "msg" :> <<"Permission denied">>
      [] b = "broken" -> "failed" :> TRUE @@ "msg" :> <<"x">>
      [] b = "pfail" -> "failed" :> TRUE @@ "rc" :> 1
      [] b = "pabsent" -> "state" :> "absent"
      [] b = "pbin" -> "state" :> "file" @@ "appears_binary" :> TRUE
      [] b = "pbig" -> "state" :> "file" @@ "appears_binary" :> FALSE @@ "size" :> 2
      [] b = "ptext" -> "state" :> "file" @@ "appears_binary" :> FALSE @@ "size" :> 1
      [] b = "slurp" -> "content" :> <<"aGk=">> @@ "encoding" :> "base64"
      [] b = "slurphex" -> "content" :> <<"6869">> @@ "encoding" :> "hex"

RECURSIVE drop_space(_)
drop_space(s) ==
    IF s = <<>> THEN <<>>
    ELSE IF IsSpace(Head(s)) THEN drop_space(Tail(s))
    ELSE <<Head(s)>> \o drop_space(Tail(s))

RECURSIVE json_value(_)
json_value(t) ==
    \/ t = <<"{", "}">>
    \/ Len(t) = 3 /\ t[1] = "{" /\ t[2] \in Members /\ t[3] = "}"
    \/ /\ Len(t) >= 2
       /\ Head(t) = "["
       /\ Last(t) = "]"
       /\ \/ Len(t) = 2
          \/ json_value(SubSeq(t, 2, Len(t) - 1))

RECURSIVE json_decode(_)
json_decode(t) ==
    IF Head(t) = "{"
      THEN PyDict(IF Len(t) = 2 THEN EmptyDict ELSE member_dict(t[2]))
      ELSE PyList(IF Len(t) = 2 THEN <<>> ELSE <<json_decode(SubSeq(t, 2, Len(t) - 1))>>)

json_loads(s) ==
    LET t == drop_space(s)
    IN IF json_value(t) THEN [ok |-> TRUE, text |-> t, value |-> json_decode(t)]
       ELSE [ok |-> FALSE, text |-> <<>>, value |-> PyDict(EmptyDict)]

(***************************************************************************)
(* _parse_returned_data.  res.stderr = None stands for a res without the   *)
(* key 'stderr'.                                                           *)
(***************************************************************************)
parse_returned_data_unfiltered(res) ==
    LET j == json_loads(res.stdout)
        d0 == "failed" :> TRUE @@ "parsed" :> FALSE @@ "msg" :> <<"MODULE FAILURE">>
              @@ "module_stdout" :> res.stdout
        d1 == IF res.stderr # None THEN dict_set(d0, "module_stderr", res.stderr) ELSE d0
        d2 == IF res.stderr # None /\ startswith(res.stderr, <<"Traceback">>)
                THEN dict_set(d1, "exception", res.stderr) ELSE d1
    IN IF j.ok THEN j.value ELSE PyDict(d2)

parse_returned_data_exception_always(res) ==
    LET j == json_loads(filter_leading_non_json_lines(res.stdout))
        d0 == "failed" :> TRUE @@ "parsed" :> FALSE @@ "msg" :> <<"MODULE FAILURE">>
              @@ "module_stdout" :> res.stdout
        d1 == IF res.stderr # None THEN dict_set(d0, "module_stderr", res.stderr) ELSE d0
        d2 == IF res.stderr # None
                THEN dict_set(d1, "exception", res.stderr) ELSE d1
    IN IF j.ok THEN j.value ELSE PyDict(d2)

parse_returned_data(res) ==
    LET j == json_loads(filter_leading_non_json_lines(res.stdout))
        d0 == "failed" :> TRUE @@ "parsed" :> FALSE @@ "msg" :> <<"MODULE FAILURE">>
              @@ "module_stdout" :> res.stdout
        d1 == IF res.stderr # None THEN dict_set(d0, "module_stderr", res.stderr) ELSE d0
        d2 == IF res.stderr # None /\ startswith(res.stderr, <<"Traceback">>)
                THEN dict_set(d1, "exception", res.stderr) ELSE d1
    IN IF j.ok THEN j.value ELSE PyDict(d2)

(* "lit in s" for the literals the code searches for: the tokens whose     *)
(* text contains the literal.                                              *)
TokensContaining(lit) ==
    IF lit = "tmp" THEN {"tmp", "-tmp-"}
    ELSE IF lit = "-tmp-" THEN {"-tmp-"}
    ELSE {lit}

contains(s, lit) == s # None /\ \E i \in 1..Len(s) : s[i] \in TokensContaining(lit)

(* Python truth value of an optional string *)
truthy(s) == s # None /\ s # <<>>

(***************************************************************************)
(* Shell command builders of connection._shell: a command is the record    *)
(* of the builder called and its arguments.  EmptyCmd is the empty string. *)
(***************************************************************************)
EmptyCmd == [kind |-> ""]

join_path(a, b) ==
    IF a = <<>> THEN b
    ELSE IF Last(a) = "/" THEN a \o b
    ELSE a \o <<"/">> \o b

get_remote_filename(module_name) == <<module_name>>

Resp(rc) == [rc |-> rc, stdout |-> <<>>, stderr |-> <<>>]

(***************************************************************************)
(* _low_level_execute_command.  resp is what connection.exec_command       *)
(* returns; a resp without the field rc stands for rc = None.  The event   *)
(* of the call records the command as sent and the rc that came back.      *)
(* stdout_lines = None stands for a result without the key stdout_lines.   *)
(***************************************************************************)
become_wraps_always(sudoable) == play_context.become

become_wraps(sudoable) ==
    LET allow_same_user == C.BECOME_ALLOW_SAME_USER
        same_user == play_context.become_user = play_context.remote_user
    IN sudoable /\ play_context.become /\ (allow_same_user \/ ~same_user)

low_level_execute_command_sends_empty(cmd, sudoable, in_data, resp) ==
    LET executable == IF connection.allow_executable
                        THEN play_context.executable ELSE None
        rc == IF "rc" \in DOMAIN resp THEN resp.rc ELSE 0
        event == [ev |-> "exec_command", cmd |-> cmd,
                  become |-> become_wraps(sudoable),
                  executable |-> IF truthy(executable) THEN executable ELSE None,
                  in_data |-> in_data, sudoable |-> sudoable, rc |-> rc]
    IN [events |-> <<event>>,
        rc |-> rc,
        stdout |-> strip_success_message(resp.stdout),
        stdout_lines |-> splitlines(strip_success_message(resp.stdout)),
        stderr |-> resp.stderr]

low_level_execute_command(cmd, sudoable, in_data, resp) ==
    IF cmd = EmptyCmd
      THEN [events |-> <<>>, rc |-> 254, stdout |-> <<>>, stderr |-> <<>>,
            stdout_lines |-> None]
      ELSE LET executable == IF connection.allow_executable
                               THEN play_context.executable ELSE None
               rc == IF "rc" \in DOMAIN resp THEN resp.rc ELSE 0
               event == [ev |-> "exec_command", cmd |-> cmd,
                         become |-> become_wraps(sudoable),
                         executable |-> IF truthy(executable) THEN executable ELSE None,
                         in_data |-> in_data, sudoable |-> sudoable, rc |-> rc]
           IN [events |-> <<event>>,
               rc |-> rc,
               stdout |-> strip_success_message(resp.stdout),
               stdout_lines |-> splitlines(strip_success_message(resp.stdout)),
               stderr |-> resp.stderr]

(***************************************************************************)
(* _remote_chmod, _remote_chown, _remote_set_user_facl                     *)
(***************************************************************************)
remote_chmod(mode, path, recursive, resp) ==
    low_level_execute_command(
        [kind |-> "chmod", mode |-> mode, path |-> path, recursive |-> recursive],
        FALSE, None, resp)

remote_chown(path, user, recursive, resp) ==
    low_level_execute_command(
        [kind |-> "chown", path |-> path, user |-> user, recursive |-> recursive],
        FALSE, None, resp)

remote_set_user_facl(path, user, mode, recursive, resp) ==
    low_level_execute_command(
        [kind |-> "setfacl", path |-> path, user |-> user, mode |-> mode,
         recursive |-> recursive],
        FALSE, None, resp)

(***************************************************************************)
(* _fixup_perms.  fx gives the rc the remote side answers to the chown,    *)
(* the setfacl and the chmod command, should they be issued.               *)
(* Result: the transport events and the error raised ("" when it returns). *)
(***************************************************************************)
Returned(events) == [events |-> events, raised |-> "", msg |-> <<>>]

Raised(events, kind, msg) == [events |-> events, raised |-> kind, msg |-> msg]

world_readable_allowed_always == TRUE

world_readable_allowed == C.ALLOW_WORLD_READABLE_TMPFILES

fixup_needs_work_no_become_test(remote_user) ==
    play_context.become_user \notin {"root", remote_user}

fixup_needs_work(remote_user) ==
    play_context.become /\ play_context.become_user \notin {"root", remote_user}

chown_failure_is_fatal_never(remote_user) == FALSE

chown_failure_is_fatal(remote_user) == remote_user = "root"

fixup_perms(remote_path, remote_user, execute, recursive, fx) ==
    IF connection.shell_family = "powershell" THEN Returned(<<>>)
    ELSE IF remote_path = None THEN Returned(<<>>)
    ELSE IF fixup_needs_work(remote_user)
      THEN LET chown == remote_chown(remote_path, play_context.become_user, recursive,
                                     Resp(fx.chown_rc))
           IN IF chown.rc = 0
                THEN IF execute
                       THEN LET chmod == remote_chmod("u+x", remote_path, recursive,
                                                      Resp(fx.chmod_rc))
                            IN IF chmod.rc # 0
                                 THEN Raised(chown.events \o chmod.events, "AnsibleError",
                                             <<"Failed to set file mode on remote temporary files">>)
                                 ELSE Returned(chown.events \o chmod.events)
                       ELSE Returned(chown.events)
              ELSE IF chown_failure_is_fatal(remote_user)
                THEN Raised(chown.events, "AnsibleError",
                            <<"Failed to change ownership of the temporary files">>)
              ELSE LET mode == IF execute THEN "rx" ELSE "rX"
                       facl == remote_set_user_facl(remote_path, play_context.become_user,
                                                    mode, recursive, Resp(fx.setfacl_rc))
                   IN IF facl.rc # 0
                        THEN IF world_readable_allowed
                               THEN LET warning == [ev |-> "warning", text |->
                                            <<"Using world-readable permissions for temporary files">>]
                                        chmod == remote_chmod("a+" \o mode, remote_path,
                                                              recursive, Resp(fx.chmod_rc))
                                        ev == chown.events \o facl.events \o <<warning>>
                                              \o chmod.events
                                    IN IF chmod.rc # 0
                                         THEN Raised(ev, "AnsibleError",
                                                     <<"Failed to set file mode on remote files">>)
                                         ELSE Returned(ev)
                               ELSE Raised(chown.events \o facl.events, "AnsibleError",
                                           <<"Failed to set permissions on the temporary files">>)
                        ELSE Returned(chown.events \o facl.events)
    ELSE IF execute
      THEN LET chmod == remote_chmod("u+x", remote_path, recursive, Resp(fx.chmod_rc))
           IN IF chmod.rc # 0
                THEN Raised(chmod.events, "AnsibleError",
                            <<"Failed to set file mode on remote files">>)
                ELSE Returned(chmod.events)
    ELSE Returned(<<>>)

(***************************************************************************)
(* _make_tmp_path.  resp is the answer to the mkdtemp command.             *)
(* Result: events, the error raised ("" when it returns) and the path.     *)
(***************************************************************************)
Basefile == <<"ansible", "-tmp-", "1">>

make_tmp_path_output_disk_full_first(result, cmd) ==
    LET output ==
            IF result.rc = 5 THEN <<"Authentication failure.">>
            ELSE IF contains(result.stderr, "No space left on device") THEN result.stderr
            ELSE IF result.rc = 255 /\ connection.transport \in {"ssh"}
              THEN IF play_context.verbosity > 3
                     THEN <<"SSH encountered an unknown error. The output was:", "\n">>
                          \o result.stdout \o result.stderr
                     ELSE <<"SSH encountered an unknown error during the connection.",
                            " We recommend you re-run the command using -vvvv">>
            ELSE <<"Authentication or permission failure.">>
    IN IF result.stdout # <<>> THEN output \o <<": ">> \o result.stdout ELSE output

make_tmp_path_output(result, cmd) ==
    LET output ==
            IF result.rc = 5 THEN <<"Authentication failure.">>
            ELSE IF result.rc = 255 /\ connection.transport \in {"ssh"}
              THEN IF play_context.verbosity > 3
                     THEN <<"SSH encountered an unknown error. The output was:", "\n">>
                          \o result.stdout \o result.stderr
                     ELSE <<"SSH encountered an unknown error during the connection.",
                            " We recommend you re-run the command using -vvvv">>
            ELSE IF contains(result.stderr, "No space left on device") THEN result.stderr
            ELSE <<"Authentication or permission failure.">>
    IN IF result.stdout # <<>> THEN output \o <<": ">> \o result.stdout ELSE output

make_tmp_path(remote_user, resp) ==
    LET use_system_tmp == play_context.become
                          /\ play_context.become_user \notin {"root", remote_user}
        cmd == [kind |-> "mkdtemp", basefile |-> Basefile,
                system |-> use_system_tmp, mode |-> "0700"]
        result == low_level_execute_command(cmd, FALSE, None, resp)
        joined == join_path(strip(result.stdout), <<>>)
        lines == splitlines(joined)
        rc == IF lines = <<>> THEN <<"/">> ELSE Last(lines)
    IN IF result.rc # 0
         THEN [events |-> result.events, raised |-> "AnsibleConnectionFailure",
               msg |-> make_tmp_path_output(result, cmd), path |-> None]
       ELSE IF rc = <<"/">>
         THEN [events |-> result.events, raised |-> "AnsibleError",
               msg |-> <<"failed to resolve remote temporary directory">>, path |-> None]
       ELSE [events |-> result.events, raised |-> "", msg |-> <<>>, path |-> rc]

(***************************************************************************)
(* _remove_tmp_path                                                        *)
(***************************************************************************)
remove_tmp_path_any_path(tmp_path, resp) ==
    IF truthy(tmp_path) /\ self.cleanup_remote_tmp /\ ~C.DEFAULT_KEEP_REMOTE_FILES
      THEN low_level_execute_command(
               [kind |-> "remove", path |-> tmp_path, recurse |-> TRUE],
               FALSE, None, resp).events
      ELSE <<>>

remove_tmp_path(tmp_path, resp) ==
    IF truthy(tmp_path) /\ self.cleanup_remote_tmp /\ ~C.DEFAULT_KEEP_REMOTE_FILES
       /\ contains(tmp_path, "-tmp-")
      THEN low_level_execute_command(
               [kind |-> "remove", path |-> tmp_path, recurse |-> TRUE],
               FALSE, None, resp).events
      ELSE <<>>

(***************************************************************************)
(* _remote_expand_user.  A path is a sequence of tokens, "~" and "/" among *)
(* them; str.split(os.path.sep, 1) cuts it at its first "/".               *)
(***************************************************************************)
split_path(path) ==
    LET seps == {i \in 1..Len(path) : path[i] = "/"}
    IN IF seps = {} THEN <<path>>
       ELSE LET i == CHOOSE b \in seps : \A c \in seps : b <= c
            IN <<SubSeq(path, 1, i - 1), SubSeq(path, i + 1, Len(path))>>

expand_path(path) ==
    IF split_path(path)[1] = <<"~">>
       /\ play_context.become /\ play_context.become_user # ""
      THEN <<"~", play_context.become_user>>
      ELSE split_path(path)[1]

remote_expand_user(path, resp) ==
    IF ~startswith(path, <<"~">>)
      THEN [events |-> <<>>, raised |-> "", value |-> path]
      ELSE LET data == low_level_execute_command(
                           [kind |-> "expand_user", user_home_path |-> expand_path(path)],
                           FALSE, None, resp)
               lines == splitlines(strip(data.stdout))
           IN IF lines = <<>>
                THEN [events |-> data.events, raised |-> "IndexError", value |-> None]
                ELSE IF Last(lines) = <<>>
                  THEN [events |-> data.events, raised |-> "", value |-> path]
                  ELSE IF Len(split_path(path)) > 1
                    THEN [events |-> data.events, raised |-> "",
                          value |-> join_path(Last(lines), split_path(path)[2])]
                    ELSE [events |-> data.events, raised |-> "", value |-> Last(lines)]

(***************************************************************************)
(* _compute_environment_string.  task.environment is [t |-> "None"],       *)
(* [t |-> "dict", d |-> mapping] or [t |-> "list", l |-> sequence] whose   *)
(* entries are None, a mapping, or a value the templar does not render to  *)
(* a mapping ([t |-> "str"]).  The environment prefix built by             *)
(* shell.env_prefix is written as the final mapping.                       *)
(***************************************************************************)
reverse(l) == [i \in 1..Len(l) |-> l[Len(l) + 1 - i]]

RECURSIVE merge_environments(_, _)
merge_environments(environments, final_environment) ==
    IF environments = <<>> THEN [raised |-> "", final |-> final_environment]
    ELSE LET environment == Head(environments)
         IN IF environment.t = "None"
              THEN merge_environments(Tail(environments), final_environment)
            ELSE IF environment.t # "dict"
              THEN [raised |-> "AnsibleError", final |-> final_environment]
            ELSE merge_environments(Tail(environments),
                                    dict_update(final_environment, environment.d))

environments_in_merge_order_unreversed(l) == l

environments_in_merge_order(l) == reverse(l)

compute_environment_string(task_environment) ==
    IF task_environment.t = "None"
      THEN [raised |-> "", env |-> EmptyDict, environment |-> task_environment]
    ELSE LET environments == IF task_environment.t # "list"
                               THEN <<task_environment>>
                               ELSE environments_in_merge_order(task_environment.l)
             after == IF task_environment.t # "list" THEN task_environment
                      ELSE [t |-> "list", l |-> environments]
             m == merge_environments(environments, EmptyDict)
         IN [raised |-> m.raised, env |-> m.final, environment |-> after]

(***************************************************************************)
(* _late_needs_tmp_path                                                    *)
(***************************************************************************)
late_needs_tmp_path_without_su(tmp, module_style) ==
    IF truthy(tmp) /\ contains(tmp, "tmp") THEN FALSE
    ELSE IF ~connection.has_pipelining \/ ~play_context.pipelining
            \/ C.DEFAULT_KEEP_REMOTE_FILES
      THEN TRUE
    ELSE IF module_style # "new" THEN TRUE
    ELSE FALSE

late_needs_tmp_path_unless_created(tmp, module_style) ==
    IF truthy(tmp) /\ contains(tmp, "tmp") THEN FALSE ELSE TRUE

late_needs_tmp_path_ignoring_style(tmp, module_style) ==
    IF truthy(tmp) /\ contains(tmp, "tmp") THEN FALSE
    ELSE IF ~connection.has_pipelining \/ ~play_context.pipelining
            \/ C.DEFAULT_KEEP_REMOTE_FILES \/ play_context.become_method = "su"
      THEN TRUE
    ELSE FALSE

late_needs_tmp_path(tmp, module_style) ==
    IF truthy(tmp) /\ contains(tmp, "tmp") THEN FALSE
    ELSE IF ~connection.has_pipelining \/ ~play_context.pipelining
            \/ C.DEFAULT_KEEP_REMOTE_FILES \/ play_context.become_method = "su"
      THEN TRUE
    ELSE IF module_style # "new" THEN TRUE
    ELSE FALSE

(***************************************************************************)
(* _transfer_data / _transfer_file: one connection.put_file call.          *)
(***************************************************************************)
transfer_data(remote_path, data) ==
    [ev |-> "put_file", remote_path |-> remote_path, data |-> data]

(***************************************************************************)
(* _execute_module, in the order of its statements.  Its locals are the    *)
(* fields of the record s; a step does nothing once an error is raised.    *)
(*   a   : the arguments of the call (tmp, persist_files, ...)             *)
(*   cfg : what _configure_module yields (found, style, shebang, data)     *)
(*   mk, fx, mr, rr : what the remote side answers to the mkdtemp command, *)
(*         the permission commands, the module command, the remove command *)
(*   pf  : which put_file call fails (0: none)                             *)
(***************************************************************************)
em_raise(s, kind, msg) == [s EXCEPT !.raised = kind, !.msg = msg]

check_mode_refused_when_supported == play_context.check_mode /\ self.supports_check_mode

check_mode_refused == play_context.check_mode /\ ~self.supports_check_mode

(* lines 511-542: defaults, check mode, injected arguments *)
em_start(a) ==
    LET module_args == IF a.use_task_args THEN task.args ELSE a.module_args
        s0 == [a |-> a, calls |-> <<>>, raised |-> "", msg |-> <<>>,
               module_args |-> module_args,
               remote_user |-> "", style |-> "", shebang |-> <<>>,
               module_data |-> None, tmp |-> a.tmp,
               remote_module_path |-> None, args_file_path |-> None,
               environment |-> task.environment, env_string |-> EmptyDict,
               in_data |-> None, rm_tmp |-> None, cleanup |-> FALSE,
               res |-> Resp(0), data |-> PyDict(EmptyDict)]
        injected ==
            dict_set(dict_set(dict_set(dict_set(dict_set(module_args,
                "_ansible_check_mode", play_context.check_mode),
                "_ansible_no_log", play_context.no_log \/ C.DEFAULT_NO_TARGET_SYSLOG),
                "_ansible_debug", C.DEFAULT_DEBUG),
                "_ansible_diff", play_context.diff),
                "_ansible_verbosity", self.display.verbosity)
    IN IF check_mode_refused
         THEN em_raise(s0, "AnsibleError", <<"check mode is not supported for this operation">>)
         ELSE [s0 EXCEPT !.module_args = injected,
                         !.remote_user = IF a.ansible_ssh_user # ""
                                           THEN a.ansible_ssh_user
                                           ELSE play_context.remote_user]

(* lines 544-546: module assembly *)
em_configure(s, cfg) ==
    IF s.raised # "" THEN s
    ELSE LET ev == [ev |-> "configure_module", module_name |-> s.a.module_name,
                    module_args |-> s.module_args]
             s1 == [s EXCEPT !.calls = @ \o <<ev>>]
         IN IF ~cfg.found
              THEN em_raise(s1, "AnsibleError", <<"The module was not found in configured module paths">>)
            ELSE IF cfg.shebang = <<>>
              THEN em_raise(s1, "AnsibleError", <<"module is missing interpreter line">>)
            ELSE [s1 EXCEPT !.style = cfg.style, !.shebang = cfg.shebang,
                            !.module_data = cfg.data]

em_needs_make_tmp(s) ==
    s.raised = "" /\ ~truthy(s.tmp) /\ late_needs_tmp_path(s.tmp, s.style)

(* lines 548-559: remote tmp path and the paths inside it *)
em_make_tmp(s, mk) ==
    IF s.raised # "" THEN s
    ELSE LET made == IF em_needs_make_tmp(s)
                       THEN make_tmp_path(s.remote_user, mk)
                       ELSE [events |-> <<>>, raised |-> "", msg |-> <<>>, path |-> s.tmp]
             s1 == [s EXCEPT !.calls = @ \o made.events]
         IN IF made.raised # "" THEN em_raise(s1, made.raised, made.msg)
            ELSE IF truthy(made.path)
              THEN [s1 EXCEPT
                      !.tmp = made.path,
                      !.remote_module_path =
                          join_path(made.path, get_remote_filename(s.a.module_name)),
                      !.args_file_path =
                          IF s.style \in {"old", "non_native_want_json"}
                            THEN join_path(made.path, <<"args">>) ELSE None]
            ELSE [s1 EXCEPT !.tmp = made.path]

em_transfers_args_first(s) ==
    IF truthy(s.remote_module_path) \/ s.style # "new"
      THEN (IF s.style = "old"
              THEN <<transfer_data(s.args_file_path,
                                   [type |-> "k=v", module_args |-> s.module_args])>>
            ELSE IF s.style = "non_native_want_json"
              THEN <<transfer_data(s.args_file_path,
                                   [type |-> "json", module_args |-> s.module_args])>>
            ELSE <<>>)
           \o <<transfer_data(s.remote_module_path, [type |-> "module", bytes |-> s.module_data])>>
      ELSE <<>>

(* lines 561-573: the put_file calls this invocation makes *)
em_transfers(s) ==
    IF truthy(s.remote_module_path) \/ s.style # "new"
      THEN <<transfer_data(s.remote_module_path, [type |-> "module", bytes |-> s.module_data])>>
           \o (IF s.style = "old"
                 THEN <<transfer_data(s.args_file_path,
                                      [type |-> "k=v", module_args |-> s.module_args])>>
               ELSE IF s.style = "non_native_want_json"
                 THEN <<transfer_data(s.args_file_path,
                                      [type |-> "json", module_args |-> s.module_args])>>
               ELSE <<>>)
      ELSE <<>>

em_transfer(s, pf) ==
    IF s.raised # "" THEN s
    ELSE LET puts == em_transfers(s)
         IN IF pf \in 1..Len(puts)
              THEN em_raise([s EXCEPT !.calls = @ \o SubSeq(puts, 1, pf)],
                            "AnsibleError", <<"failed to transfer file">>)
              ELSE [s EXCEPT !.calls = @ \o puts]

(* line 575 *)
em_environment(s) ==
    IF s.raised # "" THEN s
    ELSE LET e == compute_environment_string(s.environment)
             s1 == [s EXCEPT !.environment = e.environment, !.env_string = e.env]
         IN IF e.raised # ""
              THEN em_raise(s1, e.raised, <<"environment must be a dictionary">>)
              ELSE s1

em_fixup_unchecked(s, fx) ==
    IF s.raised # "" THEN s
    ELSE [s EXCEPT !.calls = @ \o fixup_perms(s.tmp, s.remote_user, FALSE, TRUE, fx).events]

(* line 579 *)
em_fixup(s, fx) ==
    IF s.raised # "" THEN s
    ELSE LET f == fixup_perms(s.tmp, s.remote_user, FALSE, TRUE, fx)
             s1 == [s EXCEPT !.calls = @ \o f.events]
         IN IF f.raised # "" THEN em_raise(s1, f.raised, f.msg) ELSE s1

tmp_is_removable_dash_tmp(tmp) == truthy(tmp) /\ contains(tmp, "-tmp-")

tmp_is_removable(tmp) == truthy(tmp) /\ contains(tmp, "tmp")

em_wants_cleanup(s) ==
    tmp_is_removable(s.tmp) /\ ~C.DEFAULT_KEEP_REMOTE_FILES
    /\ ~s.a.persist_files /\ s.a.delete_remote_tmp

em_pipelined_without_keep(s) ==
    connection.has_pipelining /\ play_context.pipelining /\ s.style = "new"

em_pipelined(s) ==
    connection.has_pipelining /\ play_context.pipelining
    /\ ~C.DEFAULT_KEEP_REMOTE_FILES /\ s.style = "new"

(* lines 581-605: the module command *)
em_run(s, mr) ==
    IF s.raised # "" THEN s
    ELSE LET in_data == IF em_pipelined(s) THEN s.module_data ELSE None
             cmd == IF ~em_pipelined(s) /\ truthy(s.remote_module_path)
                      THEN s.remote_module_path ELSE <<>>
             rm_tmp == IF em_wants_cleanup(s)
                          /\ (~play_context.become \/ play_context.become_user = "root")
                         THEN s.tmp ELSE None
             command == [kind |-> "module", env |-> s.env_string, shebang |-> s.shebang,
                         cmd |-> cmd, arg_path |-> s.args_file_path, rm_tmp |-> rm_tmp]
             sudoable == s.a.module_name # "accelerate"
             res == low_level_execute_command(command, sudoable, in_data, mr)
         IN [s EXCEPT !.in_data = in_data, !.rm_tmp = rm_tmp,
                      !.calls = @ \o res.events,
                      !.res = [rc |-> res.rc, stdout |-> res.stdout, stderr |-> res.stderr]]

em_needs_second_step_without_become_test(s) ==
    s.raised = "" /\ em_wants_cleanup(s)

em_needs_second_step(s) ==
    s.raised = "" /\ em_wants_cleanup(s)
    /\ play_context.become /\ play_context.become_user # "root"

(* lines 607-615: removal of the tmp path in a second step *)
em_cleanup(s, rr) ==
    IF ~em_needs_second_step(s) THEN s
    ELSE LET tmp_rm_cmd == [kind |-> "remove", path |-> s.tmp, recurse |-> TRUE]
             tmp_rm_res == low_level_execute_command(tmp_rm_cmd, FALSE, None, rr)
             tmp_rm_data == parse_returned_data(tmp_rm_res)
             s1 == [s EXCEPT !.calls = @ \o tmp_rm_res.events
                                         \o <<[ev |-> "parse", of |-> "tmp_rm_res"]>>,
                             !.cleanup = TRUE]
         IN IF tmp_rm_data.t # "dict"
              THEN em_raise(s1, "AttributeError", <<"'list' object has no attribute 'get'">>)
            ELSE IF "rc" \in DOMAIN tmp_rm_data.d /\ tmp_rm_data.d["rc"] # 0
              THEN [s1 EXCEPT !.calls = @ \o <<[ev |-> "warning",
                                text |-> <<"Error deleting remote temporary files">>]>>]
            ELSE s1

(* lines 617-626: the result *)
em_parse(s) ==
    IF s.raised # "" THEN s
    ELSE LET data == parse_returned_data(s.res)
             with_lines ==
                 IF data.t = "dict" /\ "stdout" \in DOMAIN data.d
                    /\ "stdout_lines" \notin DOMAIN data.d
                   THEN PyDict(dict_set(data.d, "stdout_lines", splitlines(data.d["stdout"])))
                   ELSE data
         IN [s EXCEPT !.data = with_lines,
                      !.calls = @ \o <<[ev |-> "parse", of |-> "res"]>>]

execute_module(a, cfg, mk, pf, fx, mr, rr) ==
    em_parse(em_cleanup(em_run(em_fixup(em_environment(em_transfer(em_make_tmp(
        em_configure(em_start(a), cfg), mk), pf)), fx), mr), rr))

(***************************************************************************)
(* _execute_remote_stat and _remote_checksum.  em is the outcome of the    *)
(* _execute_module call of line 414.                                       *)
(***************************************************************************)
stat_args(path, follow) ==
    "path" :> path @@ "follow" :> follow @@ "get_md5" :> FALSE
    @@ "get_checksum" :> TRUE @@ "checksum_algo" :> "sha1"

stat_call_always_deletes(path, follow, tmp, ansible_ssh_user) ==
    [module_name |-> "stat", use_task_args |-> FALSE,
     module_args |-> stat_args(path, follow), tmp |-> tmp,
     ansible_ssh_user |-> ansible_ssh_user,
     persist_files |-> FALSE, delete_remote_tmp |-> TRUE]

stat_call(path, follow, tmp, ansible_ssh_user) ==
    [module_name |-> "stat", use_task_args |-> FALSE,
     module_args |-> stat_args(path, follow), tmp |-> tmp,
     ansible_ssh_user |-> ansible_ssh_user,
     persist_files |-> FALSE, delete_remote_tmp |-> (tmp = None)]

stat_raise(kind, msg) == [raised |-> kind, msg |-> msg, stat |-> EmptyDict]

missing_checksum_is_unknown(st) == dict_set(st, "checksum", <<"0">>)

missing_checksum(st) == dict_set(st, "checksum", <<>>)

execute_remote_stat(path, em) ==
    IF em.raised # "" THEN stat_raise(em.raised, em.msg)
    ELSE IF em.data.t # "dict" THEN stat_raise("TypeError", <<"list indices must be integers">>)
    ELSE LET mystat == em.data.d
         IN IF "failed" \in DOMAIN mystat /\ mystat["failed"]
              THEN IF "msg" \notin DOMAIN mystat THEN stat_raise("KeyError", <<"msg">>)
                   ELSE stat_raise("AnsibleError",
                                   <<"Failed to get information on remote file (">> \o path
                                   \o <<"): ">> \o mystat["msg"])
            ELSE IF "stat" \notin DOMAIN mystat THEN stat_raise("KeyError", <<"stat">>)
            ELSE IF "exists" \notin DOMAIN mystat["stat"] THEN stat_raise("KeyError", <<"exists">>)
            ELSE LET st == mystat["stat"]
                     st1 == IF ~st["exists"] THEN dict_set(st, "checksum", <<"1">>) ELSE st
                     st2 == IF "checksum" \notin DOMAIN st1 THEN missing_checksum(st1) ELSE st1
                 IN [raised |-> "", msg |-> <<>>, stat |-> st2]

(* The return in the finally clause discards any exception in flight *)
remote_checksum(path, em) ==
    LET r == execute_remote_stat(path, em)
    IN IF r.raised = ""
         THEN IF r.stat["exists"] /\ "isdir" \notin DOMAIN r.stat THEN <<"0">>
              ELSE IF r.stat["exists"] /\ r.stat["isdir"] THEN <<"3">>
              ELSE r.stat["checksum"]
       ELSE IF r.raised \in {"AnsibleError", "AnsibleConnectionFailure"}
         THEN IF endswith(r.msg, <<"Permission denied">>) THEN <<"2">>
              ELSE IF endswith(r.msg, <<"MODULE FAILURE">>) THEN <<"4">>
              ELSE <<"0">>
       ELSE <<"0">>

(***************************************************************************)
(* _get_diff_data with source_file=False.  peek and slurp are the outcomes *)
(* of the _execute_module calls of lines 730 and 742; slurp is read only   *)
(* when the call is made.                                                  *)
(***************************************************************************)
peek_call(destination) ==
    [module_name |-> "file", use_task_args |-> FALSE,
     module_args |-> ("path" :> destination @@ "diff_peek" :> TRUE),
     tmp |-> None, ansible_ssh_user |-> "",
     persist_files |-> TRUE, delete_remote_tmp |-> TRUE]

slurp_call(destination) ==
    [module_name |-> "slurp", use_task_args |-> FALSE,
     module_args |-> ("path" :> destination),
     tmp |-> None, ansible_ssh_user |-> "",
     persist_files |-> TRUE, delete_remote_tmp |-> TRUE]

(* base64.b64decode, on the content texts of the slurp answers *)
b64decode(content) ==
    [i \in 1..Len(content) |-> IF content[i] = "aGk=" THEN "hi" ELSE "?"]

diff_raise(kind, msg) == [raised |-> kind, msg |-> msg, diff |-> EmptyDict]

(* line 732 *)
peek_is_read(peek_result) ==
    \/ peek_result.t # "dict"
    \/ ~("failed" \in DOMAIN peek_result.d /\ peek_result.d["failed"])
    \/ (IF "rc" \in DOMAIN peek_result.d THEN peek_result.d["rc"] ELSE 0) = 0

(* lines 734-741: the call of line 742 is reached *)
needs_slurp(peek) ==
    /\ peek.raised = ""
    /\ peek_is_read(peek.data)
    /\ peek.data.t = "dict"
    /\ "state" \in DOMAIN peek.data.d
    /\ peek.data.d["state"] # "absent"
    /\ "appears_binary" \in DOMAIN peek.data.d
    /\ ~peek.data.d["appears_binary"]
    /\ ~(C.MAX_FILE_SIZE_FOR_DIFF > 0 /\ "size" \notin DOMAIN peek.data.d)
    /\ ~(C.MAX_FILE_SIZE_FOR_DIFF > 0 /\ peek.data.d["size"] > C.MAX_FILE_SIZE_FOR_DIFF)

(* lines 743-750 *)
diff_before_slurp(destination, dest_result) ==
    IF dest_result.t = "dict" /\ "content" \in DOMAIN dest_result.d
      THEN IF "encoding" \notin DOMAIN dest_result.d
             THEN diff_raise("KeyError", <<"encoding">>)
           ELSE IF dest_result.d["encoding"] = "base64"
             THEN [raised |-> "", msg |-> <<>>,
                   diff |-> "before_header" :> destination
                            @@ "before" :> b64decode(dest_result.d["content"])]
           ELSE diff_raise("AnsibleError", <<"unknown encoding in content option, failed">>)
      ELSE [raised |-> "", msg |-> <<>>, diff |-> EmptyDict]

(* lines 734-750 *)
diff_before(destination, peek, slurp) ==
    LET peek_result == peek.data
    IN IF peek_result.t # "dict"
         THEN diff_raise("TypeError", <<"list indices must be integers">>)
       ELSE IF "state" \notin DOMAIN peek_result.d THEN diff_raise("KeyError", <<"state">>)
       ELSE IF peek_result.d["state"] = "absent"
         THEN [raised |-> "", msg |-> <<>>, diff |-> "before" :> <<>>]
       ELSE IF "appears_binary" \notin DOMAIN peek_result.d
         THEN diff_raise("KeyError", <<"appears_binary">>)
       ELSE IF peek_result.d["appears_binary"]
         THEN [raised |-> "", msg |-> <<>>, diff |-> "dst_binary" :> 1]
       ELSE IF C.MAX_FILE_SIZE_FOR_DIFF > 0 /\ "size" \notin DOMAIN peek_result.d
         THEN diff_raise("KeyError", <<"size">>)
       ELSE IF C.MAX_FILE_SIZE_FOR_DIFF > 0
               /\ peek_result.d["size"] > C.MAX_FILE_SIZE_FOR_DIFF
         THEN [raised |-> "", msg |-> <<>>,
               diff |-> "dst_larger" :> C.MAX_FILE_SIZE_FOR_DIFF]
       ELSE IF slurp.raised # "" THEN diff_raise(slurp.raised, slurp.msg)
       ELSE diff_before_slurp(destination, slurp.data)

(* lines 772-776 *)
diff_no_log(diff) ==
    LET d1 == IF "before" \in DOMAIN diff THEN dict_set(diff, "before", <<>>) ELSE diff
    IN IF play_context.no_log
         THEN IF "after" \in DOMAIN d1
                THEN dict_set(d1, "after", <<" [[ Diff output has been hidden ]]">>)
                ELSE d1
         ELSE diff

get_diff_data(destination, source, peek, slurp) ==
    IF peek.raised # "" THEN diff_raise(peek.raised, peek.msg)
    ELSE IF ~peek_is_read(peek.data)
      THEN [raised |-> "", msg |-> <<>>, diff |-> diff_no_log(EmptyDict)]
    ELSE LET b == diff_before(destination, peek, slurp)
         IN IF b.raised # "" THEN b
            ELSE [raised |-> "", msg |-> <<>>,
                  diff |-> diff_no_log(dict_set(dict_set(b.diff,
                               "after_header", <<"dynamically generated">>),
                               "after", source))]

(***************************************************************************)
(* The values the executor is constructed with, and the inputs of its      *)
(* operations                                                              *)
(***************************************************************************)
BOOL == {FALSE, TRUE}

Styles == {"new", "old", "non_native_want_json", "binary"}

ModuleData == <<"#!", "module">>

Shebang == <<"#!/usr/bin/python">>

TmpCreated == <<"/", "home", "/", "ansible", "-tmp-", "1">>

TmpPaths == {None, <<>>,
             <<"/", "tmp", "/", "work">>,
             <<"/", "home", "/", "ansible", "-tmp-", "0", "/">>,
             <<"/", "work">>}

TaskArgs == "foo" :> "a b"

EnvA == [t |-> "dict", d |-> ("K" :> "a")]

EnvB == [t |-> "dict", d |-> ("K" :> "b")]

PlayContexts ==
    [become : BOOL, become_user : {"root", "alice", "bob"},
     become_method : {"sudo", "su"}, remote_user : {"root", "alice"},
     pipelining : BOOL, check_mode : BOOL, no_log : {FALSE}, diff : {FALSE},
     verbosity : {0}, executable : {<<"/bin/sh">>}]

Connections ==
    [has_pipelining : BOOL, shell_family : {"sh", "powershell"},
     transport : {"ssh"}, allow_executable : {TRUE}]

Configs ==
    [DEFAULT_KEEP_REMOTE_FILES : BOOL, ALLOW_WORLD_READABLE_TMPFILES : BOOL,
     BECOME_ALLOW_SAME_USER : {FALSE}, DEFAULT_NO_TARGET_SYSLOG : {FALSE},
     DEFAULT_DEBUG : {FALSE}, MAX_FILE_SIZE_FOR_DIFF : {1}]

(* __init__ leaves _cleanup_remote_tmp False and _supports_check_mode True  *)
(* (lines 67-68); an action plugin may set either.  display is the global  *)
(* Display object that line 65 keeps as _display.                          *)
Selves ==
    [supports_check_mode : BOOL, cleanup_remote_tmp : BOOL,
     display : [verbosity : {0, 2}]]

(* _cleanup_remote_tmp is read only by _remove_tmp_path (line 258) and the *)
(* display's verbosity only by _execute_module (line 542)                  *)
Constructed == {x \in Selves : ~x.cleanup_remote_tmp}

SelvesUnread == {x \in Constructed : x.supports_check_mode /\ x.display.verbosity = 0}

Tasks ==
    [action : {"ping"}, args : {TaskArgs},
     environment : {EnvA, [t |-> "list", l |-> <<[t |-> "str"]>>]}]

(* No operation is in progress: the executor waits for its next call *)
Idle ==
    /\ op = "__init__"
    /\ args = [none |-> TRUE]
    /\ calls = <<>>
    /\ ret = [outcome |-> ""]

Start(P, K, G, S, T) ==
    /\ play_context \in P
    /\ connection \in K
    /\ C \in G
    /\ self \in S
    /\ task \in T
    /\ Idle

(* A field that the code reads only under a condition takes one value     *)
(* when the condition is false:                                            *)
(*   become_user and remote_user are read only under become                *)
(*     (lines 211, 330, 592, 608, 665);                                    *)
(*   ALLOW_WORLD_READABLE_TMPFILES only after chown and setfacl failed     *)
(*     (line 360), which takes an unprivileged become_user and a           *)
(*     remote_user other than root;                                        *)
(*   _supports_check_mode only in check mode (line 523).                   *)
OneValueWhenUnread ==
    /\ ~play_context.become =>
           play_context.become_user = "root" /\ play_context.remote_user = "alice"
    /\ C.ALLOW_WORLD_READABLE_TMPFILES =>
           /\ play_context.become
           /\ play_context.become_user \notin {"root", play_context.remote_user}
           /\ play_context.remote_user # "root"
    /\ ~play_context.check_mode => self.supports_check_mode

Init ==
    /\ Start(PlayContexts, Connections, Configs, Constructed, Tasks)
    /\ OneValueWhenUnread

(* The caller takes the result; the executor is ready for another call *)
Return ==
    /\ op # "__init__"
    /\ op' = "__init__"
    /\ args' = [none |-> TRUE]
    /\ calls' = <<>>
    /\ ret' = [outcome |-> ""]
    /\ UNCHANGED <<play_context, connection, C, self, task>>

(***************************************************************************)
(* Inputs of _execute_module and the answers of its collaborators          *)
(***************************************************************************)
(* persist_files and delete_remote_tmp are read only together, as          *)
(* "not persist_files and delete_remote_tmp" (lines 591, 607)              *)
EmInputs ==
    {a \in [module_name : {"ping"}, use_task_args : {FALSE}, module_args : {TaskArgs},
            tmp : TmpPaths, ansible_ssh_user : {""},
            persist_files : BOOL, delete_remote_tmp : BOOL] :
        a.persist_files => a.delete_remote_tmp}

NoCfg == [found |-> FALSE, style |-> "", shebang |-> <<>>, data |-> None]

CfgResults ==
    {NoCfg, [found |-> TRUE, style |-> "new", shebang |-> <<>>, data |-> ModuleData]}
    \cup [found : {TRUE}, style : Styles, shebang : {Shebang}, data : {ModuleData}]

MkdtempResponses ==
    {[rc |-> 0, stdout |-> TmpCreated \o <<"\n">>, stderr |-> <<>>],
     [rc |-> 0, stdout |-> <<"\n">>, stderr |-> <<>>],
     [rc |-> 1, stdout |-> <<>>, stderr |-> <<"Permission denied">>]}

PutFailures == {0, 1, 2}

Rcs == {0, 1}

FixupResponses == [chown_rc : Rcs, setfacl_rc : Rcs, chmod_rc : Rcs]

NoFx == [chown_rc |-> 0, setfacl_rc |-> 0, chmod_rc |-> 0]

(* fx answers only the commands that are issued *)
fx_is_read(fx, events) ==
    LET kinds == {events[i].cmd.kind :
                     i \in {j \in 1..Len(events) : events[j].ev = "exec_command"}}
    IN /\ "chown" \notin kinds => fx.chown_rc = 0
       /\ "setfacl" \notin kinds => fx.setfacl_rc = 0
       /\ "chmod" \notin kinds => fx.chmod_rc = 0

ModuleResponses ==
    {[rc |-> 0, stdout |-> <<"x", "\n", "{", "m", "}", "\n">>, stderr |-> <<>>],
     [rc |-> 1, stdout |-> <<"x", "\n">>, stderr |-> <<"Traceback">>]}

RemoveResponses ==
    {[rc |-> 0, stdout |-> <<>>, stderr |-> <<>>],
     [rc |-> 1, stdout |-> <<>>, stderr |-> <<"x">>]}

Lazy(needed, S, default) == IF needed THEN S ELSE {default}

em_ret(s) ==
    [outcome |-> IF s.raised = "" THEN "returned" ELSE s.raised,
     msg |-> s.msg, data |-> s.data, module_args |-> s.module_args,
     tmp |-> s.tmp, style |-> s.style, module_data |-> s.module_data,
     remote_user |-> s.remote_user,
     remote_module_path |-> s.remote_module_path,
     args_file_path |-> s.args_file_path, rm_tmp |-> s.rm_tmp]

(* The outcomes of one _execute_module call, over all the answers of its   *)
(* collaborators; an answer is drawn only when the call asks for it.       *)
(* EmAfterX(s, ..) are the outcomes of the rest of the call once step X    *)
(* has left the locals s.                                                  *)
EmAfterRun_parse_first(s) ==
    {em_cleanup(em_parse(s), rr) :
        rr \in Lazy(em_needs_second_step(s), RemoveResponses, Resp(0))}

EmAfterRun(s) ==
    {em_parse(em_cleanup(s, rr)) :
        rr \in Lazy(em_needs_second_step(s), RemoveResponses, Resp(0))}

EmAfterFixup(s, MRs) ==
    UNION {EmAfterRun(em_run(s, mr)) : mr \in Lazy(s.raised = "", MRs, Resp(0))}

EmAfterFixupAnswered(before, s, fx, MRs) ==
    IF fx_is_read(fx, SubSeq(s.calls, Len(before.calls) + 1, Len(s.calls)))
      THEN EmAfterFixup(s, MRs)
      ELSE {}

EmAfterEnvironment(s, MRs) ==
    UNION {EmAfterFixupAnswered(s, em_fixup(s, fx), fx, MRs) :
             fx \in Lazy(s.raised = "", FixupResponses, NoFx)}

EmAfterMakeTmp_fixup_first(s, MRs) ==
    UNION {UNION {EmAfterFixup(em_environment(em_transfer(em_fixup(s, fx), pf)), MRs) :
                    pf \in Lazy(s.raised = "",
                                {q \in PutFailures : q <= Len(em_transfers(s))}, 0)} :
             fx \in Lazy(s.raised = "", FixupResponses, NoFx)}

EmAfterMakeTmp(s, MRs) ==
    UNION {EmAfterEnvironment(em_environment(em_transfer(s, pf)), MRs) :
             pf \in Lazy(s.raised = "",
                         {q \in PutFailures : q <= Len(em_transfers(s))}, 0)}

EmAfterConfigure(s, MRs) ==
    UNION {EmAfterMakeTmp(em_make_tmp(s, mk), MRs) :
             mk \in Lazy(em_needs_make_tmp(s), MkdtempResponses, Resp(0))}

EmAfterStart(s, MRs) ==
    UNION {EmAfterConfigure(em_configure(s, cfg), MRs) :
             cfg \in Lazy(s.raised = "", CfgResults, NoCfg)}

EmOutcomes(a, MRs) == EmAfterStart(em_start(a), MRs)

ExecuteModule ==
    /\ op = "__init__"
    /\ \E a \in EmInputs :
         \E s \in EmOutcomes(a, ModuleResponses) :
           /\ op' = "_execute_module"
           /\ args' = a
           /\ calls' = s.calls
           /\ ret' = em_ret(s)
           /\ task' = [task EXCEPT
                         !.args = IF a.use_task_args THEN s.module_args ELSE @,
                         !.environment = s.environment]
           /\ UNCHANGED <<play_context, connection, C, self>>

(***************************************************************************)
(* _fixup_perms called on its own                                          *)
(***************************************************************************)
FixupInputs ==
    [remote_path : {None, TmpCreated \o <<"/">>}, remote_user : {"root", "alice"},
     execute : BOOL, recursive : BOOL]

FixupPerms ==
    /\ op = "__init__"
    /\ \E a \in FixupInputs, fx \in FixupResponses :
         LET f == fixup_perms(a.remote_path, a.remote_user, a.execute, a.recursive, fx)
         IN /\ fx_is_read(fx, f.events)
            /\ op' = "_fixup_perms"
            /\ args' = [a |-> a, fx |-> fx]
            /\ calls' = f.events
            /\ ret' = [outcome |-> IF f.raised = "" THEN "returned" ELSE f.raised,
                       msg |-> f.msg, value |-> a.remote_path]
            /\ UNCHANGED <<play_context, connection, C, self, task>>

(***************************************************************************)
(* _low_level_execute_command and _parse_returned_data on the texts the    *)
(* remote side may print                                                   *)
(***************************************************************************)
BecomeTokens == {"\n", "\r", " ", "BECOME-SUCCESS", "-", "x"}

JsonTokens == {"{", "}", "[", "]", "m", "x", "\n", " "}

AModuleCommand ==
    [kind |-> "module", env |-> EmptyDict, shebang |-> Shebang,
     cmd |-> TmpCreated \o <<"/", "ping">>, arg_path |-> None, rm_tmp |-> None]

ARemoveCommand == [kind |-> "remove", path |-> TmpCreated, recurse |-> TRUE]

(* Every text on the module command run under become; the other commands,  *)
(* flags and stdin data on two texts                                       *)
LowLevelInputs ==
    [cmd : {AModuleCommand}, sudoable : {TRUE}, in_data : {None},
     stdout : Strs(BecomeTokens, MaxOut)]
    \cup [cmd : {EmptyCmd, AModuleCommand, ARemoveCommand}, sudoable : BOOL,
          in_data : {None, ModuleData},
          stdout : {<<>>, <<"BECOME-SUCCESS", "-", "x", "\n", "x">>}]

LowLevelExecuteCommand ==
    /\ op = "__init__"
    /\ \E a \in LowLevelInputs :
         LET resp == [rc |-> 0, stdout |-> a.stdout, stderr |-> <<>>]
             res == low_level_execute_command(a.cmd, a.sudoable, a.in_data, resp)
         IN /\ op' = "_low_level_execute_command"
            /\ args' = [cmd |-> a.cmd, sudoable |-> a.sudoable, in_data |-> a.in_data,
                        resp |-> resp]
            /\ calls' = res.events
            /\ ret' = [outcome |-> "returned", rc |-> res.rc, stdout |-> res.stdout,
                       stdout_lines |-> res.stdout_lines, stderr |-> res.stderr]
            /\ UNCHANGED <<play_context, connection, C, self, task>>

ParseStderrs == {None, <<>>, <<"x", "Traceback">>, <<"Traceback", "x">>}

ParseReturnedData ==
    /\ op = "__init__"
    /\ \E stdout \in Strs(JsonTokens, MaxJson),
          stderr \in ParseStderrs :
         LET res == [rc |-> 0, stdout |-> stdout, stderr |-> stderr]
         IN /\ op' = "_parse_returned_data"
            /\ args' = res
            /\ calls' = <<>>
            /\ ret' = [outcome |-> "returned", data |-> parse_returned_data(res)]
            /\ UNCHANGED <<play_context, connection, C, self, task>>

(***************************************************************************)
(* _compute_environment_string called on its own                           *)
(***************************************************************************)
EnvDicts ==
    {[t |-> "dict", d |-> d] :
        d \in UNION {[D -> {"a", "b"}] : D \in SUBSET {"K", "L"}}}

EnvEntries == EnvDicts \cup {[t |-> "None"], [t |-> "str"]}

Environments ==
    {[t |-> "None"]} \cup EnvDicts
    \cup {[t |-> "list", l |-> l] : l \in Strs(EnvEntries, MaxEnv)}

ComputeEnvironmentString ==
    /\ op = "__init__"
    /\ LET e == compute_environment_string(task.environment)
       IN /\ op' = "_compute_environment_string"
          /\ args' = [environment |-> task.environment]
          /\ calls' = <<>>
          /\ ret' = [outcome |-> IF e.raised = "" THEN "returned" ELSE e.raised,
                     env |-> e.env]
          /\ task' = [task EXCEPT !.environment = e.environment]
          /\ UNCHANGED <<play_context, connection, C, self>>

(***************************************************************************)
(* _remote_checksum                                                        *)
(***************************************************************************)
StatResponses ==
    {[rc |-> 0, stdout |-> <<"{", b, "}", "\n">>, stderr |-> <<>>] :
        b \in {"absent", "dir", "file", "link", "denied", "broken", "m"}}
    \cup {[rc |-> 1, stdout |-> <<"x", "\n">>, stderr |-> <<"Traceback">>],
          [rc |-> 0, stdout |-> <<"[", "]">>, stderr |-> <<>>]}

APath == <<"/", "etc", "/", "motd">>

RemoteChecksum ==
    /\ op = "__init__"
    /\ \E s \in EmOutcomes(stat_call(APath, FALSE, None, ""), StatResponses) :
         /\ op' = "_remote_checksum"
         /\ args' = [path |-> APath]
         /\ calls' = s.calls
         /\ ret' = [outcome |-> "returned", value |-> remote_checksum(APath, s),
                    em |-> em_ret(s)]
         /\ task' = [task EXCEPT !.environment = s.environment]
         /\ UNCHANGED <<play_context, connection, C, self>>

(* _execute_remote_stat called by an action that may hand over its own tmp *)
ExecuteRemoteStat ==
    /\ op = "__init__"
    /\ \E tmp \in TmpPaths :
       \E s \in EmOutcomes(stat_call(APath, TRUE, tmp, ""), StatResponses) :
         LET r == execute_remote_stat(APath, s)
         IN /\ op' = "_execute_remote_stat"
            /\ args' = [path |-> APath, follow |-> TRUE, tmp |-> tmp]
            /\ calls' = s.calls
            /\ ret' = [outcome |-> IF r.raised = "" THEN "returned" ELSE r.raised,
                       msg |-> r.msg, stat |-> r.stat, em |-> em_ret(s)]
            /\ task' = [task EXCEPT !.environment = s.environment]
            /\ UNCHANGED <<play_context, connection, C, self>>

(***************************************************************************)
(* _get_diff_data on a destination the file module may find absent,        *)
(* binary, large or readable                                               *)
(***************************************************************************)
PeekResponses ==
    {[rc |-> 0, stdout |-> <<"{", b, "}", "\n">>, stderr |-> <<>>] :
        b \in {"pabsent", "pbin", "pbig", "ptext", "pfail", "denied"}}

SlurpResponses ==
    {[rc |-> 0, stdout |-> <<"{", b, "}", "\n">>, stderr |-> <<>>] :
        b \in {"slurp", "slurphex", "broken"}}

(* The call of line 742 is not made: the task is as the peek left it *)
NotCalled(peek) ==
    {[calls |-> <<>>, raised |-> "", msg |-> <<>>, data |-> PyDict(EmptyDict),
      environment |-> peek.environment]}

(* The call of line 742 starts on the task as the call of line 730 left   *)
(* it: line 166 reverses a list task.environment in place                 *)
SlurpOutcomes(peek) ==
    EmAfterStart([em_start(slurp_call(APath)) EXCEPT !.environment = peek.environment],
                 SlurpResponses)

NewContent == <<"new">>

GetDiffData ==
    /\ op = "__init__"
    /\ \E peek \in EmOutcomes(peek_call(APath), PeekResponses) :
       \E slurp \in (IF needs_slurp(peek) THEN SlurpOutcomes(peek) ELSE NotCalled(peek)) :
         LET r == get_diff_data(APath, NewContent, peek, slurp)
         IN /\ op' = "_get_diff_data"
            /\ args' = [destination |-> APath, source |-> NewContent,
                        source_file |-> FALSE]
            /\ calls' = peek.calls \o slurp.calls
            /\ ret' = [outcome |-> IF r.raised = "" THEN "returned" ELSE r.raised,
                       msg |-> r.msg, diff |-> r.diff]
            /\ task' = [task EXCEPT !.environment = slurp.environment]
            /\ UNCHANGED <<play_context, connection, C, self>>

(***************************************************************************)
(* Specifications                                                          *)
(***************************************************************************)
Next ==
    \/ ExecuteModule
    \/ Return

Spec == Init /\ [][Next]_vars

(* The permission fixer, on both shell families *)
InitFixup ==
    Start({pc \in PlayContexts : /\ ~pc.pipelining /\ ~pc.check_mode
                                 /\ pc.become_method = "sudo"
                                 /\ pc.remote_user = "alice"},
          [has_pipelining : {FALSE}, shell_family : {"sh", "powershell"},
           transport : {"ssh"}, allow_executable : {TRUE}],
          {c \in Configs : ~c.DEFAULT_KEEP_REMOTE_FILES},
          SelvesUnread,
          {t \in Tasks : t.environment = EnvA})

NextFixup ==
    \/ FixupPerms
    \/ Return

SpecFixup == InitFixup /\ [][NextFixup]_vars

(* One executor that becomes an unprivileged user *)
OneExecutor(T) ==
    Start({pc \in PlayContexts : /\ pc.become /\ pc.become_user = "bob"
                                 /\ pc.become_method = "sudo"
                                 /\ pc.remote_user = "alice"
                                 /\ ~pc.pipelining /\ ~pc.check_mode},
          {k \in Connections : ~k.has_pipelining},
          {c \in Configs : ~c.DEFAULT_KEEP_REMOTE_FILES /\ ~c.ALLOW_WORLD_READABLE_TMPFILES},
          SelvesUnread,
          T)

InitText == OneExecutor({t \in Tasks : t.environment = EnvA})

NextText ==
    \/ LowLevelExecuteCommand
    \/ ParseReturnedData
    \/ Return

SpecText == InitText /\ [][NextText]_vars

InitEnv ==
    OneExecutor([action : {"ping"}, args : {TaskArgs}, environment : Environments])

NextEnv ==
    \/ ComputeEnvironmentString
    \/ Return

SpecEnv == InitEnv /\ [][NextEnv]_vars

(* The stat helpers, with and without become and check mode *)
InitStat ==
    /\ Start({pc \in PlayContexts : pc.become_method = "sudo" /\ ~pc.pipelining},
             {k \in Connections : ~k.has_pipelining},
             {c \in Configs : ~c.DEFAULT_KEEP_REMOTE_FILES},
             Constructed, Tasks)
    /\ OneValueWhenUnread

NextStat ==
    \/ RemoteChecksum
    \/ ExecuteRemoteStat
    \/ Return

SpecStat == InitStat /\ [][NextStat]_vars

(***************************************************************************)
(* _make_tmp_path called on its own, over what the mkdtemp command may     *)
(* print and return                                                        *)
(***************************************************************************)
MkTokens == {"/", "ansible", "-tmp-", "\n", " ", "x"}

MkStderrs == {<<>>, <<"Permission denied">>, <<"mkdir: ", "No space left on device">>}

MakeTmpResponses ==
    [rc : {0}, stdout : {<<>>} \cup Strs(MkTokens, MaxMk), stderr : {<<>>}]
    \cup [rc : {1, 5, 255}, stdout : {<<>>, <<"x">>}, stderr : MkStderrs]

MakeTmpPath ==
    /\ op = "__init__"
    /\ \E remote_user \in {"root", "alice"}, resp \in MakeTmpResponses :
         LET m == make_tmp_path(remote_user, resp)
         IN /\ op' = "_make_tmp_path"
            /\ args' = [remote_user |-> remote_user, resp |-> resp]
            /\ calls' = m.events
            /\ ret' = [outcome |-> IF m.raised = "" THEN "returned" ELSE m.raised,
                       msg |-> m.msg, path |-> m.path]
            /\ UNCHANGED <<play_context, connection, C, self, task>>

InitMkTmp ==
    Start([become : BOOL, become_user : {"bob"},
           become_method : {"sudo"}, remote_user : {"alice"},
           pipelining : {FALSE}, check_mode : {FALSE}, no_log : {FALSE}, diff : {FALSE},
           verbosity : {0, 3, 4}, executable : {<<"/bin/sh">>}],
          [has_pipelining : {FALSE}, shell_family : {"sh"},
           transport : {"ssh", "local"}, allow_executable : {TRUE}],
          {c \in Configs : ~c.DEFAULT_KEEP_REMOTE_FILES /\ ~c.ALLOW_WORLD_READABLE_TMPFILES},
          SelvesUnread,
          {t \in Tasks : t.environment = EnvA})

NextMkTmp ==
    \/ MakeTmpPath
    \/ Return

SpecMkTmp == InitMkTmp /\ [][NextMkTmp]_vars

(***************************************************************************)
(* _remove_tmp_path and _remote_expand_user called on their own            *)
(***************************************************************************)
RemoveTmpPath ==
    /\ op = "__init__"
    /\ \E tmp_path \in TmpPaths, rc \in Rcs :
         LET events == remove_tmp_path(tmp_path, Resp(rc))
         IN /\ (events = <<>> => rc = 0)
            /\ op' = "_remove_tmp_path"
            /\ args' = [tmp_path |-> tmp_path, resp |-> Resp(rc)]
            /\ calls' = events
            /\ ret' = [outcome |-> "returned"]
            /\ UNCHANGED <<play_context, connection, C, self, task>>

ExpandTokens == {"/", "home", "\n", " "}

ExpandPaths == {<<"~">>, <<"~", "/", "f">>, <<"~", "alice">>, <<"~", "alice", "/", "f">>,
                <<"/", "f">>, <<"f">>}

RemoteExpandUser ==
    /\ op = "__init__"
    /\ \E path \in ExpandPaths, stdout \in Strs(ExpandTokens, MaxMk) :
         LET resp == [rc |-> 0, stdout |-> stdout, stderr |-> <<>>]
             x == remote_expand_user(path, resp)
         IN /\ (x.events = <<>> => stdout = <<>>)
            /\ op' = "_remote_expand_user"
            /\ args' = [path |-> path, resp |-> resp]
            /\ calls' = x.events
            /\ ret' = [outcome |-> IF x.raised = "" THEN "returned" ELSE x.raised,
                       value |-> x.value]
            /\ UNCHANGED <<play_context, connection, C, self, task>>

InitHelpers ==
    Start({pc \in PlayContexts : /\ pc.become_method = "sudo" /\ pc.remote_user = "alice"
                                 /\ ~pc.pipelining /\ ~pc.check_mode
                                 /\ (~pc.become => pc.become_user = "root")},
          {k \in Connections : ~k.has_pipelining /\ k.shell_family = "sh"},
          {c \in Configs : ~c.ALLOW_WORLD_READABLE_TMPFILES},
          {x \in Selves : x.supports_check_mode /\ x.display.verbosity = 0},
          {t \in Tasks : t.environment = EnvA})

NextHelpers ==
    \/ RemoveTmpPath
    \/ RemoteExpandUser
    \/ Return

SpecHelpers == InitHelpers /\ [][NextHelpers]_vars

(* The diff helper, with and without pipelining and kept remote files *)
InitDiff ==
    /\ Start({pc \in PlayContexts : /\ pc.become_method = "sudo" /\ ~pc.check_mode
                                    /\ ~pc.become},
             {k \in Connections : k.shell_family = "sh"},
             {c \in Configs : ~c.ALLOW_WORLD_READABLE_TMPFILES},
             {x \in Constructed : x.supports_check_mode},
             [action : {"ping"}, args : {TaskArgs},
              environment : {EnvA, [t |-> "list", l |-> <<EnvA, EnvB>>]}])
    /\ OneValueWhenUnread

NextDiff ==
    \/ GetDiffData
    \/ Return

SpecDiff == InitDiff /\ [][NextDiff]_vars

(* _low_level_execute_command under every become setting *)
InitExec ==
    /\ Start({pc \in PlayContexts : /\ pc.become_method = "sudo"
                                    /\ ~pc.pipelining /\ ~pc.check_mode},
             {k \in Connections : ~k.has_pipelining /\ k.shell_family = "sh"},
             [DEFAULT_KEEP_REMOTE_FILES : {FALSE}, ALLOW_WORLD_READABLE_TMPFILES : {FALSE},
              BECOME_ALLOW_SAME_USER : BOOL, DEFAULT_NO_TARGET_SYSLOG : {FALSE},
              DEFAULT_DEBUG : {FALSE}, MAX_FILE_SIZE_FOR_DIFF : {1}],
             {x \in Selves : x.supports_check_mode /\ x.display.verbosity = 0},
             {t \in Tasks : t.environment = EnvA})
    /\ OneValueWhenUnread
    (* BECOME_ALLOW_SAME_USER decides nothing without become (line 665) *)
    /\ ~play_context.become => ~C.BECOME_ALLOW_SAME_USER

NextExec ==
    \/ LowLevelExecuteCommand
    \/ FixupPerms
    \/ MakeTmpPath
    \/ RemoveTmpPath
    \/ RemoteExpandUser
    \/ Return

SpecExec == InitExec /\ [][NextExec]_vars

(***************************************************************************)
(* Properties.  calls is the sequence of events of the last operation.     *)
(***************************************************************************)
IsExec(i) == calls[i].ev = "exec_command"

IsCmd(i, kind) == calls[i].ev = "exec_command" /\ calls[i].cmd.kind = kind

IsPut(i) == calls[i].ev = "put_file"

IsWorldChmod(i) == IsCmd(i, "chmod") /\ calls[i].cmd.mode \in {"a+rx", "a+rX"}

Piped == {i \in 1..Len(calls) : IsExec(i) /\ calls[i].in_data = ret.module_data}

PipeliningCase ==
    /\ op = "_execute_module"
    /\ ret.style = "new"
    /\ connection.has_pipelining
    /\ play_context.pipelining
    /\ ~C.DEFAULT_KEEP_REMOTE_FILES

(* C1, as claimed: with module style 'new', pipelining on both sides and   *)
(* DEFAULT_KEEP_REMOTE_FILES false, for every become method and whether or *)
(* not a tmp path was passed, no put_file is issued and the module bytes   *)
(* are the in_data of exactly one exec_command.                            *)
C1_AsClaimed ==
    PipeliningCase =>
        /\ \A i \in 1..Len(calls) : ~IsPut(i)
        /\ ret.outcome = "returned" => Cardinality(Piped) = 1

(* C1, amended: with module style 'new', pipelining on both sides,         *)
(* DEFAULT_KEEP_REMOTE_FILES false, a become method other than 'su' and no *)
(* tmp path passed by the caller, no put_file is issued, and when the call *)
(* returns the module bytes are the in_data of exactly one exec_command.   *)
C1_PipeliningTransfersNothing ==
    (PipeliningCase /\ play_context.become_method # "su" /\ ~truthy(args.tmp)) =>
        /\ \A i \in 1..Len(calls) : ~IsPut(i)
        /\ ret.outcome = "returned" => Cardinality(Piped) = 1

C1_Witness ==
    /\ PipeliningCase
    /\ play_context.become_method # "su"
    /\ ~truthy(args.tmp)
    /\ ret.outcome = "returned"
    /\ Cardinality(Piped) = 1
    /\ \A i \in 1..Len(calls) : ~IsPut(i)

(* C2: in check mode with _supports_check_mode false, _execute_module      *)
(* raises an execution error before any transport call: no exec_command,   *)
(* no put_file, no module assembly, and module_args is left as passed.     *)
C2_CheckModeRefusedFirst ==
    (op = "_execute_module" /\ play_context.check_mode /\ ~self.supports_check_mode) =>
        /\ ret.outcome = "AnsibleError"
        /\ calls = <<>>
        /\ ret.module_args = args.module_args

C2_Witness ==
    /\ op = "_execute_module"
    /\ play_context.check_mode
    /\ ~self.supports_check_mode
    /\ ret.outcome = "AnsibleError"
    /\ ret.msg = <<"check mode is not supported for this operation">>

(* C3: _fixup_perms issues a world-readable chmod (a+rx or a+rX) only when *)
(* ALLOW_WORLD_READABLE_TMPFILES is true and a chown and then a setfacl    *)
(* have failed before it; when setfacl fails and the knob is false it      *)
(* raises an execution error and issues no chmod at all.                   *)
C3_WorldReadableIsOptIn ==
    op = "_fixup_perms" =>
        /\ \A i \in 1..Len(calls) :
              IsWorldChmod(i) =>
                 /\ C.ALLOW_WORLD_READABLE_TMPFILES
                 /\ \E j \in 1..(i-1), k \in 1..(i-1) :
                       /\ j < k
                       /\ IsCmd(j, "chown") /\ calls[j].rc # 0
                       /\ IsCmd(k, "setfacl") /\ calls[k].rc # 0
        /\ (/\ ~C.ALLOW_WORLD_READABLE_TMPFILES
            /\ \E k \in 1..Len(calls) : IsCmd(k, "setfacl") /\ calls[k].rc # 0) =>
              /\ ret.outcome = "AnsibleError"
              /\ \A i \in 1..Len(calls) : ~IsCmd(i, "chmod")

C3_Witness ==
    /\ op = "_fixup_perms"
    /\ C.ALLOW_WORLD_READABLE_TMPFILES
    /\ Len(calls) = 4
    /\ IsCmd(1, "chown") /\ calls[1].rc # 0
    /\ IsCmd(2, "setfacl") /\ calls[2].rc # 0
    /\ calls[3].ev = "warning"
    /\ IsWorldChmod(4)

(* C4: with become inactive _fixup_perms issues no setfacl and no          *)
(* world-readable chmod; the only command it can issue is chmod u+x, and   *)
(* only when execute is true.                                              *)
C4_NoBecomeOnlyUserExecute ==
    (op = "_fixup_perms" /\ ~play_context.become) =>
        \A i \in 1..Len(calls) :
            /\ IsCmd(i, "chmod")
            /\ calls[i].cmd.mode = "u+x"
            /\ args.a.execute

C4_Witness ==
    /\ op = "_fixup_perms"
    /\ ~play_context.become
    /\ args.a.execute
    /\ Len(calls) = 1
    /\ IsCmd(1, "chmod")
    /\ calls[1].cmd.mode = "u+x"

FixerFailed ==
    \/ \E i \in 1..Len(calls) :
          IsCmd(i, "chown") /\ calls[i].rc # 0 /\ ret.remote_user = "root"
    \/ \E i \in 1..Len(calls) :
          IsCmd(i, "setfacl") /\ calls[i].rc # 0 /\ ~C.ALLOW_WORLD_READABLE_TMPFILES
    \/ \E i \in 1..Len(calls) : IsWorldChmod(i) /\ calls[i].rc # 0

(* C5: whenever the permission fixer fails inside _execute_module (chown   *)
(* fails with remote_user root, setfacl fails with the knob false, or the  *)
(* fallback chmod returns non-zero), _execute_module raises an execution   *)
(* error and the module command is never sent.                             *)
C5_FixerFailureStopsTheCall ==
    (op = "_execute_module" /\ FixerFailed) =>
        /\ ret.outcome = "AnsibleError"
        /\ \A i \in 1..Len(calls) : ~IsCmd(i, "module")

C5_Witness ==
    /\ op = "_execute_module"
    /\ \E i \in 1..Len(calls) : IsWorldChmod(i) /\ calls[i].rc # 0
    /\ ret.outcome = "AnsibleError"
    /\ \E i \in 1..Len(calls) : IsPut(i)

(* C6, as claimed: _execute_module requests removal of a tmp path (rm_tmp  *)
(* of the module command, or a separate remove command) only if the path   *)
(* contains '-tmp-'.                                                       *)
C6_AsClaimed ==
    op = "_execute_module" =>
        \A i \in 1..Len(calls) :
            /\ (IsCmd(i, "module") /\ calls[i].cmd.rm_tmp # None) =>
                   contains(calls[i].cmd.rm_tmp, "-tmp-")
            /\ IsCmd(i, "remove") => contains(calls[i].cmd.path, "-tmp-")

Sentinels == {<<"0">>, <<"1">>, <<"2">>, <<"3">>, <<"4">>}

(* C7, as claimed: _remote_checksum returns, for every outcome of the stat *)
(* call, one of the sentinels "0".."4" or the digest the stat module       *)
(* reported; it never returns the empty string and never raises.           *)
C7_AsClaimed ==
    op = "_remote_checksum" =>
        /\ ret.outcome = "returned"
        /\ \/ ret.value \in Sentinels
           \/ /\ ret.em.outcome = "returned"
              /\ ret.em.data.t = "dict"
              /\ "stat" \in DOMAIN ret.em.data.d
              /\ "checksum" \in DOMAIN ret.em.data.d["stat"]
              /\ ret.value = ret.em.data.d["stat"]["checksum"]

EnvList == args.environment.l

(* C8, as claimed: when task.environment is a sequence of mappings, for    *)
(* every key defined in more than one mapping the value of the mapping     *)
(* that comes later in the sequence wins.                                  *)
C8_AsClaimed ==
    (/\ op = "_compute_environment_string"
     /\ args.environment.t = "list"
     /\ ret.outcome = "returned") =>
        \A i \in 1..Len(EnvList) :
            EnvList[i].t = "dict" =>
                \A k \in DOMAIN EnvList[i].d :
                    (\A j \in (i+1)..Len(EnvList) :
                        EnvList[j].t = "dict" => k \notin DOMAIN EnvList[j].d)
                    => ret.env[k] = EnvList[i].d[k]

(* C8, amended: when task.environment is a sequence of mappings, for every *)
(* key defined in more than one mapping the value of the mapping that      *)
(* comes earlier in the sequence, as it stands when the call is made, wins.*)
C8_EarlierMappingWins ==
    (/\ op = "_compute_environment_string"
     /\ args.environment.t = "list"
     /\ ret.outcome = "returned") =>
        \A i \in 1..Len(EnvList) :
            EnvList[i].t = "dict" =>
                \A k \in DOMAIN EnvList[i].d :
                    (\A j \in 1..(i-1) :
                        EnvList[j].t = "dict" => k \notin DOMAIN EnvList[j].d)
                    => ret.env[k] = EnvList[i].d[k]

C8_Witness ==
    /\ op = "_compute_environment_string"
    /\ args.environment.t = "list"
    /\ ret.outcome = "returned"
    /\ Len(EnvList) >= 2
    /\ EnvList[1].t = "dict" /\ EnvList[2].t = "dict"
    /\ "K" \in DOMAIN EnvList[1].d /\ "K" \in DOMAIN EnvList[2].d
    /\ EnvList[1].d["K"] # EnvList[2].d["K"]
    /\ ret.env["K"] = EnvList[1].d["K"]

Sent == args.resp.stdout

(* C9, as claimed: for every stdout of a successful become execution that  *)
(* carries a BECOME-SUCCESS-<token> line, also when blank lines or white   *)
(* space precede it, the stdout _low_level_execute_command returns is the  *)
(* text after that line, unchanged, without the BECOME-SUCCESS line.       *)
C9_AsClaimed ==
    (op = "_low_level_execute_command" /\ calls # <<>> /\ calls[1].become) =>
        \A w \in 0..Len(Sent), k \in 1..Len(Sent) :
            (/\ \A i \in 1..w : IsSpace(Sent[i])
             /\ w + 2 < k
             /\ Sent[w+1] = "BECOME-SUCCESS"
             /\ Sent[w+2] = "-"
             /\ Sent[k] = "\n"
             /\ \A i \in (w+3)..(k-1) : Sent[i] # "\n")
            => ret.stdout = SubSeq(Sent, k + 1, Len(Sent))

Raw == args.stdout

IsObjectText(J) ==
    /\ J # <<>>
    /\ Head(J) = "{"
    /\ drop_space(J) \in {<<"{", "}">>} \cup {<<"{", b, "}">> : b \in Members}

ObjectOf(J) ==
    PyDict(IF Len(drop_space(J)) = 2 THEN EmptyDict ELSE member_dict(drop_space(J)[2]))

EndsLine(P) == P = <<>> \/ Last(P) \in {"\n", "\r"}

(* C10, as claimed: for any raw stdout made of zero or more banner lines   *)
(* that are not JSON, whatever character each starts with, followed by a   *)
(* valid JSON object, _parse_returned_data returns exactly that object.    *)
C10_AsClaimed ==
    op = "_parse_returned_data" =>
        \A n \in 0..Len(Raw) :
            LET P == SubSeq(Raw, 1, n)
                J == SubSeq(Raw, n + 1, Len(Raw))
            IN (/\ EndsLine(P)
                /\ IsObjectText(J)
                /\ \A i \in 1..Len(splitlines(P)) : ~json_loads(splitlines(P)[i]).ok)
               => ret.data = ObjectOf(J)

(* C10, amended: for any raw stdout made of zero or more banner lines,     *)
(* none of which begins with '{' or '[', followed by a valid JSON object   *)
(* that begins its line, _parse_returned_data returns exactly that object. *)
C10_BannerThenObject ==
    op = "_parse_returned_data" =>
        \A n \in 0..Len(Raw) :
            LET P == SubSeq(Raw, 1, n)
                J == SubSeq(Raw, n + 1, Len(Raw))
            IN (/\ EndsLine(P)
                /\ IsObjectText(J)
                /\ \A i \in 1..Len(P) : LineStart(P, i) => P[i] \notin {"{", "["})
               => ret.data = ObjectOf(J)

C10_Witness ==
    /\ op = "_parse_returned_data"
    /\ Raw = <<"x", "\n", "{", "}">>
    /\ ret.data = PyDict(EmptyDict)

(* C11: when the stdout, after the leading lines are filtered, is not      *)
(* valid JSON, _parse_returned_data returns (it does not raise) a mapping  *)
(* with failed true, parsed false, msg 'MODULE FAILURE', module_stdout the *)
(* raw stdout and module_stderr the stderr, and it has the key 'exception' *)
(* (equal to stderr) exactly when stderr begins with 'Traceback'.          *)
C11_ParseFailureIsStructured ==
    (/\ op = "_parse_returned_data"
     /\ args.stderr # None
     /\ ~json_value(drop_space(filter_leading_non_json_lines(Raw)))) =>
        /\ ret.outcome = "returned"
        /\ ret.data.t = "dict"
        /\ {"failed", "parsed", "msg", "module_stdout", "module_stderr"}
               \subseteq DOMAIN ret.data.d
        /\ ret.data.d["failed"] = TRUE
        /\ ret.data.d["parsed"] = FALSE
        /\ ret.data.d["msg"] = <<"MODULE FAILURE">>
        /\ ret.data.d["module_stdout"] = Raw
        /\ ret.data.d["module_stderr"] = args.stderr
        /\ "exception" \in DOMAIN ret.data.d
               <=> (args.stderr # <<>> /\ Head(args.stderr) = "Traceback")
        /\ "exception" \in DOMAIN ret.data.d => ret.data.d["exception"] = args.stderr

C11_Witness ==
    /\ op = "_parse_returned_data"
    /\ Raw = <<"x", "\n", "{", "m">>
    /\ args.stderr = <<"Traceback", "x">>
    /\ ret.data.t = "dict"
    /\ ret.data.d["parsed"] = FALSE
    /\ ret.data.d["exception"] = <<"Traceback", "x">>

PutIdx == {i \in 1..Len(calls) : IsPut(i)}

ModuleCommandSent == \E i \in 1..Len(calls) : IsCmd(i, "module")

(* C12: every call of _execute_module with module style 'old' that reaches *)
(* the module command issues exactly two put_file calls: first the module  *)
(* bytes to <tmp>/<module filename>, then the arguments to <tmp>/args.     *)
C12_OldStyleTwoTransfers ==
    (op = "_execute_module" /\ ret.style = "old" /\ ModuleCommandSent) =>
        \E i, j \in 1..Len(calls) :
            /\ i < j
            /\ PutIdx = {i, j}
            /\ calls[i].remote_path = ret.remote_module_path
            /\ startswith(calls[i].remote_path, ret.tmp)
            /\ endswith(calls[i].remote_path, get_remote_filename(args.module_name))
            /\ calls[i].data = [type |-> "module", bytes |-> ret.module_data]
            /\ calls[j].remote_path = ret.args_file_path
            /\ startswith(calls[j].remote_path, ret.tmp)
            /\ endswith(calls[j].remote_path, <<"args">>)
            /\ calls[j].data = [type |-> "k=v", module_args |-> ret.module_args]

C12_Witness ==
    /\ op = "_execute_module"
    /\ ret.style = "old"
    /\ ModuleCommandSent
    /\ ret.outcome = "returned"
    /\ Cardinality(PutIdx) = 2

(* C13, as claimed: every path _make_tmp_path returns, whatever the        *)
(* mkdtemp command prints with rc 0, contains '-tmp-' and is not '/'; when *)
(* the stdout is empty or only white space it raises an execution error.   *)
C13_AsClaimed ==
    (op = "_make_tmp_path" /\ args.resp.rc = 0) =>
        /\ ret.outcome = "returned" =>
              contains(ret.path, "-tmp-") /\ ret.path # <<"/">>
        /\ strip(args.resp.stdout) = <<>> => ret.outcome = "AnsibleError"

SshUnknownError ==
    {"SSH encountered an unknown error. The output was:",
     "SSH encountered an unknown error during the connection."}

(* C14: when the mkdtemp command returns a non-zero rc, _make_tmp_path     *)
(* raises a connection failure, and the message begins, by priority: with  *)
(* 'Authentication failure.' for rc 5; else, for rc 255 on the ssh         *)
(* transport, with 'SSH encountered an unknown error' (and the -vvvv hint  *)
(* when verbosity is at most 3); else with the raw stderr when it contains *)
(* 'No space left on device'; else with 'Authentication or permission      *)
(* failure.'.                                                              *)
C14_MkdtempFailureIsConnectionFailure ==
    (op = "_make_tmp_path" /\ args.resp.rc # 0) =>
        /\ ret.outcome = "AnsibleConnectionFailure"
        /\ ret.path = None
        /\ IF args.resp.rc = 5
             THEN Head(ret.msg) = "Authentication failure."
           ELSE IF args.resp.rc = 255 /\ connection.transport = "ssh"
             THEN /\ Head(ret.msg) \in SshUnknownError
                  /\ play_context.verbosity <= 3 =>
                        ret.msg[2] = " We recommend you re-run the command using -vvvv"
           ELSE IF \E i \in 1..Len(args.resp.stderr) :
                      args.resp.stderr[i] = "No space left on device"
             THEN startswith(ret.msg, args.resp.stderr)
           ELSE Head(ret.msg) = "Authentication or permission failure."

C14_Witness ==
    /\ op = "_make_tmp_path"
    /\ args.resp.rc = 255
    /\ connection.transport = "ssh"
    /\ play_context.verbosity = 3
    /\ \E i \in 1..Len(args.resp.stderr) : args.resp.stderr[i] = "No space left on device"
    /\ ret.outcome = "AnsibleConnectionFailure"
    /\ Head(ret.msg) = "SSH encountered an unknown error during the connection."

(* C15: called with an empty command, _low_level_execute_command returns   *)
(* stdout '', stderr '' and rc 254 and calls neither exec_command nor      *)
(* make_become_cmd, for every sudoable, in_data and become setting.        *)
C15_EmptyCommandIsNotSent ==
    (op = "_low_level_execute_command" /\ args.cmd = EmptyCmd) =>
        /\ calls = <<>>
        /\ ret.outcome = "returned"
        /\ ret.stdout = <<>>
        /\ ret.stderr = <<>>
        /\ ret.rc = 254

C15_Witness ==
    /\ op = "_low_level_execute_command"
    /\ args.cmd = EmptyCmd
    /\ args.sudoable
    /\ args.in_data = ModuleData
    /\ play_context.become
    /\ play_context.become_user # play_context.remote_user
    /\ ret.rc = 254

(* The place of an event in the order of C16; 0 for the other events *)
Rank(i) ==
    IF calls[i].ev = "configure_module" THEN 1
    ELSE IF IsCmd(i, "mkdtemp") THEN 2
    ELSE IF IsPut(i) THEN 3
    ELSE IF IsExec(i) /\ calls[i].cmd.kind \in {"chown", "setfacl", "chmod"} THEN 4
    ELSE IF IsCmd(i, "module") THEN 5
    ELSE 0

(* C16: within one call of _execute_module, module assembly comes before   *)
(* the mkdtemp command, the mkdtemp command before any put_file, every     *)
(* put_file before any permission command, and every permission command    *)
(* before the exec_command that runs the module.                           *)
C16_StagingOrder ==
    op = "_execute_module" =>
        \A i, j \in 1..Len(calls) :
            (Rank(i) # 0 /\ Rank(j) # 0 /\ Rank(i) < Rank(j)) => i < j

C16_Witness ==
    /\ op = "_execute_module"
    /\ Len(calls) >= 5
    /\ Rank(1) = 1 /\ Rank(2) = 2 /\ Rank(3) = 3 /\ Rank(4) = 4
    /\ \E e \in 5..Len(calls) : Rank(e) = 5

IsParse(i, of) == calls[i].ev = "parse" /\ calls[i].of = of

(* C17, as claimed: when cleanup is not piggy-backed (become active and    *)
(* become_user not root), the main result is parsed before the separate    *)
(* tmp removal command is sent.                                            *)
C17_AsClaimed ==
    op = "_execute_module" =>
        \A j \in 1..Len(calls) :
            IsCmd(j, "remove") => \E i \in 1..(j-1) : IsParse(i, "res")

(* C17, amended: when cleanup is not piggy-backed, the separate tmp        *)
(* removal command is sent after the module command and before the         *)
(* module's result is parsed.                                              *)
C17_CleanupBeforeParsing ==
    op = "_execute_module" =>
        \A j \in 1..Len(calls) :
            IsCmd(j, "remove") =>
                /\ \E i \in 1..(j-1) : IsCmd(i, "module")
                /\ \A i \in 1..Len(calls) : IsParse(i, "res") => j < i

C17_Witness ==
    /\ op = "_execute_module"
    /\ ret.outcome = "returned"
    /\ play_context.become /\ play_context.become_user # "root"
    /\ \E i, j, k \in 1..Len(calls) :
          /\ i < j /\ j < k
          /\ IsCmd(i, "module") /\ IsCmd(j, "remove") /\ IsParse(k, "res")

CleanupPermitted ==
    /\ op = "_execute_module"
    /\ ModuleCommandSent
    /\ truthy(ret.tmp)
    /\ ~C.DEFAULT_KEEP_REMOTE_FILES
    /\ ~args.persist_files
    /\ args.delete_remote_tmp

PiggyBacked == \E i \in 1..Len(calls) : IsCmd(i, "module") /\ calls[i].cmd.rm_tmp = ret.tmp

Removals == {i \in 1..Len(calls) : IsCmd(i, "remove")}

RemovedOnce ==
    IF ~play_context.become \/ play_context.become_user = "root"
      THEN PiggyBacked /\ Removals = {}
      ELSE /\ ~PiggyBacked
           /\ \E j \in 1..Len(calls) :
                 /\ Removals = {j}
                 /\ calls[j].cmd.path = ret.tmp
                 /\ ~calls[j].sudoable
                 /\ \E i \in 1..(j-1) : IsCmd(i, "module")

(* C18, as claimed: every call of _execute_module that reaches the module  *)
(* command with a tmp path and DEFAULT_KEEP_REMOTE_FILES false,            *)
(* persist_files false and delete_remote_tmp true requests removal of the  *)
(* tmp path exactly once: in the module command when become is inactive or *)
(* become_user is root, otherwise by one separate non-sudoable remove      *)
(* command after the module command.                                       *)
C18_AsClaimed == CleanupPermitted => RemovedOnce

(* C18, amended: the same, for a tmp path that contains '-tmp-'.           *)
C18_RemovedExactlyOnce ==
    (CleanupPermitted /\ contains(ret.tmp, "-tmp-")) => RemovedOnce

C18_Witness ==
    /\ CleanupPermitted
    /\ contains(ret.tmp, "-tmp-")
    /\ play_context.become /\ play_context.become_user # "root"
    /\ Cardinality(Removals) = 1
    /\ ~PiggyBacked

(* C19, as claimed: when the separate tmp removal command returns a        *)
(* non-zero rc, a warning 'Error deleting remote temporary files' is       *)
(* emitted and _execute_module still returns, without raising.             *)
C19_AsClaimed ==
    (op = "_execute_module" /\ \E j \in 1..Len(calls) : IsCmd(j, "remove") /\ calls[j].rc # 0) =>
        /\ \E i \in 1..Len(calls) :
              /\ calls[i].ev = "warning"
              /\ calls[i].text = <<"Error deleting remote temporary files">>
        /\ ret.outcome = "returned"

(* C20, as claimed: on a POSIX shell, with become active and become_user   *)
(* 'root' or equal to remote_user, _fixup_perms issues no remote command,  *)
(* for every execute and recursive.                                        *)
C20_AsClaimed ==
    (/\ op = "_fixup_perms"
     /\ connection.shell_family = "sh"
     /\ play_context.become
     /\ play_context.become_user \in {"root", args.a.remote_user}) =>
        calls = <<>>

FallbackCase ==
    /\ op = "_fixup_perms"
    /\ play_context.become
    /\ play_context.become_user \notin {"root", args.a.remote_user}

(* C21: in _fixup_perms with become active and become_user neither 'root'  *)
(* nor remote_user, chown is the first command; after a chown that         *)
(* succeeds neither setfacl nor a world-readable chmod is issued; after a  *)
(* chown that fails with remote_user 'root' an execution error is raised   *)
(* and setfacl is not attempted; setfacl is attempted only after a failed  *)
(* chown with a non-root remote_user, and after a setfacl that succeeds no *)
(* chmod is issued.                                                        *)
C21_FallbackChainIsOrdered ==
    FallbackCase =>
        /\ calls # <<>> => IsCmd(1, "chown")
        /\ (connection.shell_family = "sh" /\ args.a.remote_path # None) => calls # <<>>
        /\ (calls # <<>> /\ calls[1].rc = 0) =>
              \A i \in 1..Len(calls) : ~IsCmd(i, "setfacl") /\ ~IsWorldChmod(i)
        /\ (calls # <<>> /\ calls[1].rc # 0 /\ args.a.remote_user = "root") =>
              /\ ret.outcome = "AnsibleError"
              /\ \A i \in 1..Len(calls) : ~IsCmd(i, "setfacl")
        /\ \A i \in 1..Len(calls) :
              IsCmd(i, "setfacl") =>
                 /\ i = 2
                 /\ calls[1].rc # 0
                 /\ args.a.remote_user # "root"
                 /\ calls[i].rc = 0 => \A j \in 1..Len(calls) : ~IsCmd(j, "chmod")

C21_Witness ==
    /\ FallbackCase
    /\ Len(calls) = 2
    /\ IsCmd(1, "chown") /\ calls[1].rc # 0
    /\ IsCmd(2, "setfacl") /\ calls[2].rc = 0
    /\ ret.outcome = "returned"

ShouldWrap(sudoable) ==
    /\ sudoable
    /\ play_context.become
    /\ (C.BECOME_ALLOW_SAME_USER \/ play_context.become_user # play_context.remote_user)

HelperKinds == {"mkdtemp", "chown", "chmod", "setfacl", "remove", "expand_user"}

(* C22: _low_level_execute_command wraps a non-empty command with          *)
(* make_become_cmd if and only if sudoable is true, become is active and   *)
(* BECOME_ALLOW_SAME_USER is true or become_user differs from the play     *)
(* context's remote_user; the helper commands that _make_tmp_path,         *)
(* _fixup_perms, _remove_tmp_path and _remote_expand_user send (mkdtemp,   *)
(* chown, chmod, setfacl, tmp removal, expand_user) are never wrapped.     *)
C22_BecomeWrapsIffSudoable ==
    /\ (op = "_low_level_execute_command" /\ args.cmd # EmptyCmd) =>
          /\ Len(calls) = 1
          /\ calls[1].become <=> ShouldWrap(args.sudoable)
    /\ op \in {"_make_tmp_path", "_fixup_perms", "_remove_tmp_path", "_remote_expand_user"} =>
          \A i \in 1..Len(calls) :
              IsExec(i) =>
                  /\ calls[i].cmd.kind \in HelperKinds
                  /\ ~calls[i].sudoable
                  /\ ~calls[i].become

(* A command wrapped although become_user is the remote_user, because      *)
(* BECOME_ALLOW_SAME_USER is set *)
C22_Witness ==
    /\ op = "_low_level_execute_command"
    /\ play_context.become_user = play_context.remote_user
    /\ C.BECOME_ALLOW_SAME_USER
    /\ Len(calls) = 1
    /\ calls[1].become

(* C23: _remove_tmp_path sends a remove command if and only if the path is *)
(* non-empty, contains '-tmp-', _cleanup_remote_tmp is set and             *)
(* DEFAULT_KEEP_REMOTE_FILES is false; otherwise it sends nothing; when it *)
(* removes, it sends that one command and returns whatever its rc.         *)
C23_RemoveOnlyOwnTmp ==
    op = "_remove_tmp_path" =>
        /\ calls # <<>> <=>
              /\ args.tmp_path \notin {None, <<>>}
              /\ \E i \in 1..Len(args.tmp_path) : args.tmp_path[i] = "-tmp-"
              /\ self.cleanup_remote_tmp
              /\ ~C.DEFAULT_KEEP_REMOTE_FILES
        /\ calls # <<>> =>
              /\ Len(calls) = 1
              /\ IsCmd(1, "remove")
              /\ calls[1].cmd.path = args.tmp_path
        /\ ret.outcome = "returned"

C23_Witness ==
    /\ op = "_remove_tmp_path"
    /\ Len(calls) = 1
    /\ IsCmd(1, "remove")
    /\ calls[1].rc # 0
    /\ ret.outcome = "returned"

(* C25: when _remote_expand_user is given a path starting with '~' and the *)
(* expansion command prints nothing (empty or whitespace-only stdout), it  *)
(* returns the original path and does not raise.                           *)
C25_AsClaimed ==
    (/\ op = "_remote_expand_user"
     /\ startswith(args.path, <<"~">>)
     /\ strip(args.resp.stdout) = <<>>) =>
        /\ ret.outcome = "returned"
        /\ ret.value = args.path

(* C24: when _execute_remote_stat is called with a non-empty tmp path of   *)
(* its caller, that path is reused and survives: no mkdtemp command is     *)
(* sent, every file is put under it, and no removal is requested, neither  *)
(* in the stat module command nor as a command of its own.                 *)
C24_CallerTmpSurvivesStat ==
    (op = "_execute_remote_stat" /\ truthy(args.tmp)) =>
        /\ ret.em.tmp = args.tmp
        /\ \A i \in 1..Len(calls) :
              /\ ~IsCmd(i, "mkdtemp")
              /\ ~IsCmd(i, "remove")
              /\ IsCmd(i, "module") => calls[i].cmd.rm_tmp = None
              /\ IsPut(i) => startswith(calls[i].remote_path, args.tmp)

(* The stat module ran from the caller's '-tmp-' directory, under either   *)
(* become setting *)
C24_Witness ==
    /\ op = "_execute_remote_stat"
    /\ contains(args.tmp, "-tmp-")
    /\ ret.outcome = "returned"
    /\ \E i, j \in 1..Len(calls) : i < j /\ IsPut(i) /\ IsCmd(j, "module")

(* C26, as claimed: _compute_environment_string is repeatable: a call      *)
(* leaves the order of task.environment as it found it, and the next call  *)
(* on the same task returns the same environment prefix.                   *)
C26_AsClaimed ==
    (op = "_compute_environment_string" /\ ret.outcome = "returned") =>
        /\ task.environment = args.environment
        /\ compute_environment_string(task.environment).raised = ""
        /\ compute_environment_string(task.environment).env = ret.env

RemovalRequestedAfter(i) ==
    \E j \in (i+1)..Len(calls) :
        \/ IsCmd(j, "remove")
        \/ IsCmd(j, "module") /\ calls[j].cmd.rm_tmp # None

(* C27, as claimed: after _get_diff_data returns with                      *)
(* DEFAULT_KEEP_REMOTE_FILES false, every remote tmp directory that its    *)
(* nested module calls created has had a removal requested.                *)
C27_AsClaimed ==
    (/\ op = "_get_diff_data"
     /\ ret.outcome = "returned"
     /\ ~C.DEFAULT_KEEP_REMOTE_FILES) =>
        \A i \in 1..Len(calls) :
            (IsCmd(i, "mkdtemp") /\ calls[i].rc = 0) => RemovalRequestedAfter(i)

(* C28, as claimed: every tmp directory that _execute_module creates       *)
(* itself (no tmp of the caller, DEFAULT_KEEP_REMOTE_FILES false,          *)
(* persist_files false, delete_remote_tmp true) has a removal requested    *)
(* before _execute_module terminates, whether it returns or raises.        *)
C28_AsClaimed ==
    (/\ op = "_execute_module"
     /\ ~truthy(args.tmp)
     /\ ~C.DEFAULT_KEEP_REMOTE_FILES
     /\ ~args.persist_files
     /\ args.delete_remote_tmp) =>
        \A i \in 1..Len(calls) :
            (IsCmd(i, "mkdtemp") /\ calls[i].rc = 0 /\ truthy(ret.tmp)) =>
                \E j \in (i+1)..Len(calls) :
                    \/ IsCmd(j, "remove") /\ calls[j].cmd.path = ret.tmp
                    \/ IsCmd(j, "module") /\ calls[j].cmd.rm_tmp = ret.tmp

(* C29: in _execute_module no file is transferred to an undefined (None)   *)
(* remote path: whenever the module bytes are transferred a tmp path       *)
(* exists and remote_module_path is set and is the destination, and        *)
(* whenever an args file is transferred (styles 'old' and                  *)
(* 'non_native_want_json') args_file_path is set and is the destination,   *)
(* for every style, caller tmp, pipelining setting and become method.      *)
C29_TransfersHaveADestination ==
    op = "_execute_module" =>
        \A i \in 1..Len(calls) :
            IsPut(i) =>
                /\ calls[i].remote_path # None
                /\ truthy(ret.tmp)
                /\ startswith(calls[i].remote_path, ret.tmp)
                /\ calls[i].data.type = "module" =>
                       /\ ret.remote_module_path # None
                       /\ calls[i].remote_path = ret.remote_module_path
                /\ calls[i].data.type # "module" =>
                       /\ ret.style \in {"old", "non_native_want_json"}
                       /\ ret.args_file_path # None
                       /\ calls[i].remote_path = ret.args_file_path

(* An old-style module on a pipelining connection, with no tmp from the    *)
(* caller: the directory is created for the module and its args file *)
C29_Witness ==
    /\ op = "_execute_module"
    /\ args.tmp = None
    /\ connection.has_pipelining /\ play_context.pipelining
    /\ ~C.DEFAULT_KEEP_REMOTE_FILES /\ play_context.become_method # "su"
    /\ ret.style = "old"
    /\ \E i, j, k \in 1..Len(calls) :
          /\ i < j /\ j < k
          /\ IsCmd(i, "mkdtemp")
          /\ IsPut(j) /\ calls[j].data.type = "module"
          /\ IsPut(k) /\ calls[k].data.type = "k=v"

====
